---- MODULE Spec2Model ----
(***************************************************************************)
(* Model of the Clowder pipeline orchestrator (server/main.py,             *)
(* server/services.py, agents/templates.py).                               *)
(*                                                                         *)
(* State: the rows of the pipelines, jobs and job_dependencies tables and  *)
(* the in-memory running_jobs registry of executor tasks.  One action per  *)
(* handler or per stretch of a coroutine between two awaits: asyncio runs  *)
(* such a stretch without interleaving.                                    *)
(***************************************************************************)
EXTENDS Integers, Sequences, FiniteSets, TLC

\* ------------------------------------------------------------------ bounds
MaxPipelines == 2   \* pipelines that are ever instantiated
MaxJobs == 2        \* job rows that are ever inserted, over all pipelines
MaxRetries == 1     \* largest default of the jobs.max_retries column
MaxTemplateJobs == 3 \* jobs of the one template of SpecInstantiated
MaxRequestJobs == 2  \* jobs of the template of SpecTemplates
MaxRequestStages == 2 \* stages of the template of SpecTemplates
MaxItems == 2        \* items the planner of SpecMultiplier prints
MaxRequests == 3     \* requests the client of SpecHttp sends
MaxContentLen == 3   \* tokens the planner of SpecParse prints

PipelineIds == 1..MaxPipelines
JobIds == 1..MaxJobs
\* exit codes of a subprocess: success and failure
ExitCodes == {0, 1}

DependencyTypes == {"success", "failure", "always"}
TerminalJobStatus == {"completed", "failed", "skipped"}

\* termination_reason values; NULL is the empty tuple
NoReason == <<>>
ReasonSuccess == <<"success">>
ReasonDependencyFailed == <<"dependency_failed">>
ReasonDeadlocked == <<"pipeline_deadlocked">>
ReasonExitCode(c, n) == <<"exit_code", c, "after", n, "attempts">>

\* Texts (prompts, outputs) are sequences of tokens; a placeholder is a token.
NoText == <<>>
Null == <<"NULL">>
OriginalPromptToken == "{{original_prompt}}"
ItemToken == "{{item}}"
IndexToken == "{{index}}"
LBracket == "["
RBracket == "]"
Comma == ","
Newline == "\n"
Space == " "

VARIABLES
    pipelines,          \* pipeline_id -> status; "none": no such row
    stages,             \* stage_id -> row of the stages table
    jobs,               \* job_id -> row of the jobs table (existing rows only)
    job_dependencies,   \* rows [job_id, depends_on_job_id, dependency_type]
    artifacts,          \* rows [job_id, name, content] of the artifacts table
    loop,               \* where orchestration_loop is: "sleeping" between two
                        \* ticks, "ended" once it has left its `while True`
    uncommitted,        \* pipelines whose rows were inserted on db.conn and are
                        \* not committed yet
    template_jobs,      \* pipeline_id -> the template_jobs rows of its template
                        \* that declare a job_multiplier
    running_jobs,       \* job_id -> executor task (its position and locals)
    default_max_retries, \* DEFAULT of the jobs.max_retries column (schema)
    request,            \* the body of the POST that creates pipelines
    response            \* the last reply read by the client of SpecHttp

\* the part of the state held by the scheduler and the executor
server_vars == <<pipelines, jobs, job_dependencies, running_jobs>>
\* the part that only instantiation writes
fixed_vars == <<stages, template_jobs, default_max_retries, request, response, loop>>

vars == <<pipelines, stages, jobs, job_dependencies, artifacts, uncommitted, loop, template_jobs,
          running_jobs, default_max_retries, request, response>>

EmptyMap == [x \in {} |-> 0]

JobsOf(js, p) == {j \in DOMAIN js : js[j].pipeline_id = p}

\* ------------------------------------------------------------- construction
\* str.replace on token sequences
RECURSIVE ReplaceToken(_, _, _)
ReplaceToken(text, token, by) ==
    IF text = <<>> THEN <<>>
    ELSE (IF Head(text) = token THEN by ELSE <<Head(text)>>)
            \o ReplaceToken(Tail(text), token, by)

\* the original_prompt every POST of a run carries
OriginalPrompt == <<"P">>

\* NULL job_multiplier and NULL retry_strategy
NoMultiplier == [source_template_job_id |-> 0, parse_strategy |-> "json_array",
                 prompt_template |-> NoText]
NoRetryStrategy == [include_context |-> FALSE, context_instruction |-> Null]

\* The dependency rows of a template over the template jobs `ids`: at most one
\* row per ordered pair, and only from a later job to an earlier one (acyclic).
TemplateDependencies(ids) ==
    LET pairs == {pr \in ids \X ids : pr[2] < pr[1]}
    IN  {{[template_job_id |-> pr[1], depends_on_template_job_id |-> pr[2],
           dependency_type |-> f[pr]] : pr \in {q \in pairs : f[q] # "none"}} :
         f \in [pairs -> DependencyTypes \cup {"none"}]}

\* A template of one stage and n plain jobs (no multiplier, no retry strategy,
\* no artifact strategy, a command that prints nothing) with the dependency
\* rows deps.  `command` stands for the text the command prints.
OneStageTemplate(n, deps) ==
    [stages |-> {1},
     jobs |-> [t \in 1..n |->
                 [template_stage_id |-> 1,
                  prompt_template |-> <<OriginalPromptToken>>,
                  retry_strategy |-> NoRetryStrategy,
                  artifact_strategy |-> "none",
                  command |-> NoText,
                  job_multiplier |-> NoMultiplier]],
     dependencies |-> deps]

\* a POST body: the template it names, the prompt and the exclusions
Request(tpl, excluded_stage_ids, excluded_job_ids) ==
    [template |-> tpl, original_prompt |-> OriginalPrompt,
     excluded_stage_ids |-> excluded_stage_ids, excluded_job_ids |-> excluded_job_ids]

\* `request` when the client may POST any one-stage template, as often as
\* there are pipeline ids
\* no reply read yet
NoResponse == [n |-> 0, op |-> "none", template_id |-> "", pipeline_id |-> 0, code |-> 0]

AnyRequest == [any |-> TRUE, times |-> MaxPipelines, body |-> Request(OneStageTemplate(0, {}), {}, {})]

Init ==
    /\ pipelines = [p \in PipelineIds |-> "none"]
    /\ stages = EmptyMap
    /\ jobs = EmptyMap
    /\ job_dependencies = {}
    /\ artifacts = {}
    /\ uncommitted = {}
    /\ loop = "sleeping"
    /\ template_jobs = [p \in PipelineIds |-> EmptyMap]
    /\ running_jobs = EmptyMap
    /\ response = NoResponse
    /\ default_max_retries \in {0, MaxRetries}
    /\ request = AnyRequest

\* ------------------------------------------------- POST /pipelines/../start
\* position of x in the set S of numbers, counted from 1
Rank(x, S) == Cardinality({y \in S : y <= x})

\* an id generator that starts over for every pipeline
LastIdReused(rows) == 0

\* `str(uuid.uuid4())`: ids are fresh; the rows get the next free numbers
LastId(rows) == Cardinality(DOMAIN rows)

\* an instantiation that materialises the jobs of excluded stages
StageMaterialisedAlways(template_stage_id, excluded_stage_ids) == TRUE

\* `if stage['template_stage_id'] in excluded_stage_ids: continue`
StageMaterialised(template_stage_id, excluded_stage_ids) ==
    template_stage_id \notin excluded_stage_ids

MaterialisedStages(tpl, excluded_stage_ids) ==
    {t \in tpl.stages : StageMaterialised(t, excluded_stage_ids)}

MaterialisedJobs(tpl, excluded_stage_ids, excluded_job_ids) ==
    {t \in DOMAIN tpl.jobs :
        /\ tpl.jobs[t].template_stage_id \in MaterialisedStages(tpl, excluded_stage_ids)
        /\ t \notin excluded_job_ids}

\* a substitution that forgets the prompt of the POST
SubstitutePromptDropsOriginal(prompt_template, original_prompt) ==
    ReplaceToken(prompt_template, OriginalPromptToken, NoText)

\* `job['prompt_template'].replace('{{original_prompt}}', original_prompt)`
SubstitutePrompt(prompt_template, original_prompt) ==
    ReplaceToken(prompt_template, OriginalPromptToken, original_prompt)

\* the row of a job inserted by instantiate_template
NewJobRow(p, stage_id, t, tj, original_prompt) ==
    [pipeline_id |-> p, stage_id |-> stage_id, template_job_id |-> t,
     parent_job_id |-> 0, status |-> "pending", retry_count |-> 0,
     max_retries |-> default_max_retries, termination_reason |-> NoReason,
     prompt |-> SubstitutePrompt(tj.prompt_template, original_prompt),
     original_prompt |-> SubstitutePrompt(tj.prompt_template, original_prompt),
     job_output |-> Null, retry_strategy |-> tj.retry_strategy,
     artifact_strategy |-> tj.artifact_strategy, command |-> tj.command,
     started_at |-> "null", completed_at |-> "null"]

\* the INSERTs of instantiate_template
InsertRows(p, tpl, original_prompt, excluded_stage_ids, excluded_job_ids) ==
    LET S == MaterialisedStages(tpl, excluded_stage_ids)
        J == MaterialisedJobs(tpl, excluded_stage_ids, excluded_job_ids)
        stage_map == [t \in S |-> LastId(stages) + Rank(t, S)]
        job_map == [t \in J |-> LastId(jobs) + Rank(t, J)]
        StageOf(x) == CHOOSE t \in S : stage_map[t] = x
        JobOf(x) == CHOOSE t \in J : job_map[t] = x
    IN  /\ pipelines' = [pipelines EXCEPT ![p] = "pending"]
        /\ stages' = [x \in DOMAIN stages \cup {stage_map[t] : t \in S} |->
                        IF x \in DOMAIN stages THEN stages[x]
                        ELSE [pipeline_id |-> p, stage_order |-> StageOf(x)]]
        /\ jobs' = [x \in DOMAIN jobs \cup {job_map[t] : t \in J} |->
                      IF x \in DOMAIN jobs THEN jobs[x]
                      ELSE NewJobRow(p, stage_map[tpl.jobs[JobOf(x)].template_stage_id],
                                     JobOf(x), tpl.jobs[JobOf(x)], original_prompt)]
        /\ job_dependencies' = job_dependencies \cup
              {[job_id |-> job_map[d.template_job_id],
                depends_on_job_id |-> job_map[d.depends_on_template_job_id],
                dependency_type |-> d.dependency_type] :
                 d \in {e \in tpl.dependencies :
                           /\ e.template_job_id \notin excluded_job_ids
                           /\ e.depends_on_template_job_id \notin excluded_job_ids
                           /\ e.template_job_id \in J
                           /\ e.depends_on_template_job_id \in J}}

\* the template jobs of the template of pipeline p that declare a multiplier
DeclaredMultipliers(p, tpl) ==
    [template_jobs EXCEPT ![p] =
        [t \in {u \in DOMAIN tpl.jobs :
                   tpl.jobs[u].job_multiplier.source_template_job_id # 0} |->
            tpl.jobs[t]]]

instantiate_template(p, tpl, original_prompt, excluded_stage_ids, excluded_job_ids) ==
    /\ InsertRows(p, tpl, original_prompt, excluded_stage_ids, excluded_job_ids)
    /\ template_jobs' = DeclaredMultipliers(p, tpl)

\* the template up to the template job `fail_at`, at which the loop of
\* instantiate_template raises: the stages up to its stage and the jobs
\* inserted before it; `fail_at` 0 is the first dependency row
InsertedBefore(tpl, fail_at) ==
    IF fail_at = 0 THEN [tpl EXCEPT !.dependencies = {}]
    ELSE LET before == {u \in DOMAIN tpl.jobs :
                           \/ tpl.jobs[u].template_stage_id
                                 < tpl.jobs[fail_at].template_stage_id
                           \/ /\ tpl.jobs[u].template_stage_id
                                    = tpl.jobs[fail_at].template_stage_id
                              /\ u < fail_at}
         IN  [stages |-> {x \in tpl.stages : x <= tpl.jobs[fail_at].template_stage_id},
              jobs |-> [u \in before |-> tpl.jobs[u]],
              dependencies |-> {}]

\* instantiate_template raises after its first INSERT: the rows inserted so
\* far stay in the open transaction of db.conn (no rollback, no commit)
instantiate_template_raises(p, tpl, original_prompt, fail_at) ==
    /\ InsertRows(p, InsertedBefore(tpl, fail_at), original_prompt, {}, {})
    /\ template_jobs' = DeclaredMultipliers(p, tpl)
    /\ uncommitted' = uncommitted \cup {p}

\* the bodies a POST may carry
Requests ==
    IF request.any
    THEN UNION {{Request(OneStageTemplate(n, deps), {}, {}) :
                    deps \in TemplateDependencies(1..n)} :
                n \in 0..(MaxJobs - Cardinality(DOMAIN jobs))}
    ELSE {request.body}

start_pipeline(p) ==
    /\ pipelines[p] = "none"
    /\ p <= request.times
    /\ \A q \in PipelineIds : q < p => pipelines[q] # "none"
    /\ \E r \in Requests :
          instantiate_template(p, r.template, r.original_prompt,
                               r.excluded_stage_ids, r.excluded_job_ids)
    /\ uncommitted' = {}
    /\ UNCHANGED <<artifacts, running_jobs, default_max_retries, request, response, loop>>

\* -------------------------------------------------- POST /pipelines/../stop
\* a stop that also cancels the jobs of the pipeline and their executors
StopPipelineStopsJobs(p) ==
    /\ pipelines[p] \notin {"none", "cancelled"}
    /\ pipelines' = [pipelines EXCEPT ![p] = "cancelled"]
    /\ jobs' = [j \in DOMAIN jobs |->
                  IF jobs[j].pipeline_id = p /\ jobs[j].status \in {"pending", "running"}
                  THEN [jobs[j] EXCEPT !.status = "skipped"] ELSE jobs[j]]
    /\ running_jobs' = [j \in {k \in DOMAIN running_jobs : jobs[k].pipeline_id # p} |->
                          running_jobs[j]]
    /\ uncommitted' = {}
    /\ UNCHANGED <<job_dependencies, artifacts, fixed_vars>>

\* (stopping a cancelled pipeline writes the status it has: no step)
stop_pipeline(p) ==
    /\ pipelines[p] \notin {"none", "cancelled"}
    /\ pipelines' = [pipelines EXCEPT ![p] = "cancelled"]
    /\ uncommitted' = {}
    /\ UNCHANGED <<jobs, job_dependencies, artifacts, running_jobs, fixed_vars>>

\* ------------------------------------------------------ failure propagation
\* a propagation that skips dependents whatever the type of their edge
SkipsDependentAnyType(dep_type) == TRUE

\* `if dep_type == 'success'`
SkipsDependent(dep_type) == dep_type = "success"

RECURSIVE propagate_job_failure(_, _), PropagateRows(_, _)
propagate_job_failure(js, failed_job_id) ==
    LET dependent_jobs == {d \in job_dependencies :
                              /\ d.depends_on_job_id = failed_job_id
                              /\ js[d.job_id].status = "pending"}
    IN  PropagateRows(js, dependent_jobs)

\* a loop that handles one dependent per call
PropagateOneRow(js, rows) ==
    IF rows = {} THEN js
    ELSE LET dep == CHOOSE d \in rows : TRUE
         IN  IF SkipsDependent(dep.dependency_type)
             THEN propagate_job_failure(
                     [js EXCEPT ![dep.job_id].status = "skipped",
                                ![dep.job_id].completed_at = "set",
                                ![dep.job_id].termination_reason = ReasonDependencyFailed],
                     dep.job_id)
             ELSE js

PropagateRows(js, rows) ==
    IF rows = {} THEN js
    ELSE LET dep == CHOOSE d \in rows : TRUE
             js1 == IF SkipsDependent(dep.dependency_type)
                    THEN propagate_job_failure(
                            [js EXCEPT ![dep.job_id].status = "skipped",
                                       ![dep.job_id].completed_at = "set",
                                       ![dep.job_id].termination_reason = ReasonDependencyFailed],
                            dep.job_id)
                    ELSE js
         IN  PropagateRows(js1, rows \ {dep})

\* ----------------------------------------------------- completion / deadlock
\* An edge that keeps its job from counting as deadlocked.
EdgeNotBlocking(js, d) ==
    \/ js[d.depends_on_job_id].status \in {"running", "pending"}
    \/ d.dependency_type = "success" /\ js[d.depends_on_job_id].status = "completed"
    \/ d.dependency_type = "failure" /\ js[d.depends_on_job_id].status = "failed"
    \/ d.dependency_type = "always"

Deadlocked(js, p) ==
    {j \in JobsOf(js, p) :
        /\ js[j].status = "pending"
        /\ ~ \E d \in job_dependencies : d.job_id = j /\ EdgeNotBlocking(js, d)
        /\ \E d \in job_dependencies : d.job_id = j}

\* SUM(..) over no rows is NULL: `row['pending'] > 0` raises TypeError
CheckRaises(js, p) == JobsOf(js, p) = {}

\* a completion check that overlooks failed jobs
PipelineFinalStatusIgnoresFailed(js, p) == "completed"

\* `'failed' if row['failed'] > 0 else 'completed'`
PipelineFinalStatus(js, p) ==
    IF \E j \in JobsOf(js, p) : js[j].status = "failed" THEN "failed" ELSE "completed"

\* db is [pipelines |-> .., jobs |-> ..]
check_pipeline_completion(db, p) ==
    LET js == db.jobs
        total == JobsOf(js, p)
        done == {j \in total : js[j].status \in TerminalJobStatus}
        pending == {j \in total : js[j].status = "pending"}
    IN  IF total = done
        THEN [db EXCEPT !.pipelines[p] = PipelineFinalStatus(js, p)]
        ELSE IF pending # {} /\ Deadlocked(js, p) # {}
        THEN [pipelines |-> [db.pipelines EXCEPT ![p] = "failed"],
              jobs |-> [j \in DOMAIN js |->
                          IF j \in pending
                          THEN [js[j] EXCEPT !.status = "skipped",
                                             !.completed_at = "set",
                                             !.termination_reason = ReasonDeadlocked]
                          ELSE js[j]]]
        ELSE db

\* The loop over the running pipelines, in the order the query returned them;
\* an exception leaves the loop (and the tick).
RECURSIVE CheckRunningPipelines(_, _)
CheckRunningPipelines(db, order) ==
    IF order = <<>> THEN db
    ELSE IF CheckRaises(db.jobs, Head(order)) THEN db
    ELSE CheckRunningPipelines(check_pipeline_completion(db, Head(order)), Tail(order))

\* an exception is raised in the loop over the running pipelines
RECURSIVE CheckRaisesIn(_, _)
CheckRaisesIn(db, order) ==
    IF order = <<>> THEN FALSE
    ELSE IF CheckRaises(db.jobs, Head(order)) THEN TRUE
    ELSE CheckRaisesIn(check_pipeline_completion(db, Head(order)), Tail(order))

\* ---------------------------------------------------------- scheduler tick
\* a loop whose tick is not wrapped in try/except
LoopAfterTickUncaught(raised) == IF raised THEN "ended" ELSE "sleeping"

\* `except Exception as e: logger.error(..)`, then `await asyncio.sleep(5)`
LoopAfterTick(raised) == "sleeping"

PromotePending(ps) == [p \in DOMAIN ps |-> IF ps[p] = "pending" THEN "running" ELSE ps[p]]

\* the ready-job query of orchestration_loop
ReadyJobs(js) ==
    {j \in DOMAIN js :
        /\ js[j].status = "pending"
        /\ ~ \E d \in job_dependencies :
                /\ d.job_id = j
                /\ js[d.depends_on_job_id].status # "completed"}

\* a scheduler that dispatches whatever is already running
MayDispatchAlways(rj) == TRUE

\* `if not running_jobs`
MayDispatch(rj) == rj = EmptyMap

NewTask == [pc |-> "created", retry_count |-> 0, max_retries |-> 0, returncode |-> 0]

Orders(S) == {o \in [1..Cardinality(S) -> S] : \A a, b \in 1..Cardinality(S) : o[a] = o[b] => a = b}

orchestration_loop ==
    LET ps1 == PromotePending(pipelines)
        ready == IF MayDispatch(running_jobs) THEN ReadyJobs(jobs) ELSE {}
        running_pipelines == {p \in PipelineIds : ps1[p] = "running"}
    IN  /\ loop = "sleeping"
        /\ IF ready = {}
           THEN UNCHANGED running_jobs
           ELSE \E job_id \in ready :
                   running_jobs' = [j \in DOMAIN running_jobs \cup {job_id} |->
                                       IF j = job_id THEN NewTask ELSE running_jobs[j]]
        /\ \E order \in Orders(running_pipelines) :
              LET db == CheckRunningPipelines([pipelines |-> ps1, jobs |-> jobs], order)
              IN  /\ pipelines' = db.pipelines
                  /\ jobs' = db.jobs
                  /\ uncommitted' = IF db.pipelines # pipelines \/ db.jobs # jobs
                                    THEN {} ELSE uncommitted
                  /\ loop' = LoopAfterTick(
                                 CheckRaisesIn([pipelines |-> ps1, jobs |-> jobs], order))
        /\ UNCHANGED <<job_dependencies, artifacts, stages, template_jobs,
                       default_max_retries, request, response>>

\* -------------------------------------------------------------- multiplier
\* str.strip(): the text without its leading and trailing white space
Whitespace == {Space, Newline}

RECURSIVE Strip(_)
Strip(text) ==
    IF text = <<>> THEN <<>>
    ELSE IF Head(text) \in Whitespace THEN Strip(Tail(text))
    ELSE IF text[Len(text)] \in Whitespace THEN Strip(SubSeq(text, 1, Len(text) - 1))
    ELSE text

\* str.split(sep): the pieces between the separators, empty ones included
RECURSIVE Split(_, _, _)
Split(text, sep, piece) ==
    IF text = <<>> THEN <<piece>>
    ELSE IF Head(text) = sep THEN <<piece>> \o Split(Tail(text), sep, <<>>)
    ELSE Split(Tail(text), sep, Append(piece, Head(text)))

\* `[x.strip() for x in content.split(sep) if x.strip()]`
RECURSIVE StrippedNonEmpty(_)
StrippedNonEmpty(pieces) ==
    IF pieces = <<>> THEN <<>>
    ELSE (IF Strip(Head(pieces)) = <<>> THEN <<>> ELSE <<Strip(Head(pieces))>>)
            \o StrippedNonEmpty(Tail(pieces))

\* the JSON text without the white space between its tokens
RECURSIVE JsonTokens(_)
JsonTokens(text) ==
    IF text = <<>> THEN <<>>
    ELSE (IF Head(text) \in Whitespace THEN <<>> ELSE <<Head(text)>>)
            \o JsonTokens(Tail(text))

\* a token that is neither punctuation nor white space stands for a JSON
\* string literal
JsonPunctuation == {LBracket, RBracket, Comma}

\* the index of the last token of the JSON value that starts at c[i], 0 if
\* none starts there; JsonElementsEnd the same for the elements of an array
\* that go on at c[i]
RECURSIVE JsonValueEnd(_, _)
RECURSIVE JsonElementsEnd(_, _, _)
JsonValueEnd(c, i) ==
    IF i > Len(c) THEN 0
    ELSE IF c[i] = LBracket THEN JsonElementsEnd(c, i + 1, TRUE)
    ELSE IF c[i] \in JsonPunctuation THEN 0
    ELSE i

JsonElementsEnd(c, i, first) ==
    IF i > Len(c) THEN 0
    ELSE IF first /\ c[i] = RBracket THEN i
    ELSE LET e == JsonValueEnd(c, i)
         IN  IF e = 0 \/ e + 1 > Len(c) THEN 0
             ELSE IF c[e + 1] = RBracket THEN e + 1
             ELSE IF c[e + 1] = Comma THEN JsonElementsEnd(c, e + 2, FALSE)
             ELSE 0

\* json.loads succeeds on the text
JsonValid(c) == c # <<>> /\ JsonValueEnd(c, 1) = Len(c)

\* `[str(item) for item in items]` of the array whose elements go on at c[i]
RECURSIVE JsonElements(_, _)
JsonElements(c, i) ==
    IF c[i] = RBracket THEN <<>>
    ELSE LET e == JsonValueEnd(c, i)
         IN  <<SubSeq(c, i, e)>> \o
             (IF c[e + 1] = Comma THEN JsonElements(c, e + 2) ELSE <<>>)

\* a parser that gives no item for a text that is not JSON
JsonDecodeErrorNoItems(content) == <<>>

\* `except json.JSONDecodeError: return [content]`
JsonDecodeError(content) == <<content>>

\* parse_artifact_content: the items of the content, each a text
parse_artifact_content(content, parse_strategy) ==
    IF content = NoText THEN <<>>
    ELSE IF parse_strategy = "json_array"
    THEN LET c == JsonTokens(Strip(content))
         IN  IF ~ JsonValid(c) THEN JsonDecodeError(content)
             ELSE IF c[1] = LBracket THEN JsonElements(c, 2)
             ELSE <<c>>
    ELSE IF parse_strategy = "line_delimited"
    THEN StrippedNonEmpty(Split(content, Newline, <<>>))
    ELSE IF parse_strategy = "comma_separated"
    THEN StrippedNonEmpty(Split(content, Comma, <<>>))
    ELSE <<content>>

\* StdoutFinalStrategy.collect_artifacts: one artifact final_output.txt with
\* the output, none for an empty output; no strategy, no artifact
collect_artifacts(arts, job_id, artifact_strategy, final_output) ==
    IF artifact_strategy = "none" \/ final_output = NoText THEN arts
    ELSE arts \cup {[job_id |-> job_id, name |-> "final_output.txt",
                     content |-> final_output]}

\* the content of the final_output.txt artifact of a job, NoText if it has none
ArtifactContent(arts, job_id) ==
    LET rows == {a \in arts : a.job_id = job_id /\ a.name = "final_output.txt"}
    IN  IF rows = {} THEN NoText ELSE (CHOOSE a \in rows : TRUE).content

\* a substitution that leaves the {{index}} placeholder in the prompt
ChildPromptKeepsIndex(prompt_template, item, original_prompt, idx) ==
    ReplaceToken(ReplaceToken(prompt_template, ItemToken, item),
                 OriginalPromptToken, original_prompt)

\* the prompt of the child for item number idx (from 0)
ChildPrompt(prompt_template, item, original_prompt, idx) ==
    ReplaceToken(
        ReplaceToken(
            ReplaceToken(prompt_template, ItemToken, item),
            OriginalPromptToken, original_prompt),
        IndexToken, <<ToString(idx)>>)

\* a multiplier that also makes the parent wait for its child
ChildDependenciesBothWays(job_id, source_job_id) ==
    {[job_id |-> job_id, depends_on_job_id |-> source_job_id,
      dependency_type |-> "success"],
     [job_id |-> source_job_id, depends_on_job_id |-> job_id,
      dependency_type |-> "success"]}

\* `INSERT INTO job_dependencies ... VALUES (?, ?, 'success')` for a child
ChildDependencies(job_id, source_job_id) ==
    {[job_id |-> job_id, depends_on_job_id |-> source_job_id,
      dependency_type |-> "success"]}

\* a multiplier that puts the children into the first pipeline of the store
ChildPipelineFirst(js, source_job_id) == 1

\* the pipeline of the children: `pipeline_id = job['pipeline_id']` of the
\* completed job
ChildPipeline(js, source_job_id) == js[source_job_id].pipeline_id

\* db is [jobs |-> .., job_dependencies |-> .., artifacts |-> ..]
spawn_multiplied_jobs(db, source_job_id, t, template_job, stage_id) ==
    LET items == parse_artifact_content(ArtifactContent(db.artifacts, source_job_id),
                                        template_job.job_multiplier.parse_strategy)
        k == Cardinality(DOMAIN db.jobs)
        new_ids == (k + 1)..(k + Len(items))
        ChildRow(x) ==
            LET prompt == ChildPrompt(template_job.job_multiplier.prompt_template,
                                      items[x - k], OriginalPrompt, x - k - 1)
            IN  [pipeline_id |-> ChildPipeline(db.jobs, source_job_id),
                 stage_id |-> stage_id, template_job_id |-> t,
                 parent_job_id |-> source_job_id, status |-> "pending",
                 retry_count |-> 0, max_retries |-> default_max_retries,
                 termination_reason |-> NoReason,
                 prompt |-> prompt, original_prompt |-> prompt,
                 job_output |-> Null, retry_strategy |-> template_job.retry_strategy,
                 artifact_strategy |-> template_job.artifact_strategy,
                 command |-> template_job.command,
                 started_at |-> "null", completed_at |-> "null"]
    IN  [jobs |-> [x \in DOMAIN db.jobs \cup new_ids |->
                      IF x \in new_ids THEN ChildRow(x) ELSE db.jobs[x]],
         job_dependencies |-> db.job_dependencies \cup
              UNION {ChildDependencies(x, source_job_id) : x \in new_ids},
         artifacts |-> db.artifacts]

\* a multiplier without the guard against a second batch
AlreadySpawnedNever(js, parent_job_id, t) == FALSE

\* `already_spawned['count'] > 0`
AlreadySpawned(js, parent_job_id, t) ==
    \E j \in DOMAIN js : js[j].parent_job_id = parent_job_id /\ js[j].template_job_id = t

\* the loop of check_and_spawn_multiplied_jobs over the template jobs `ts`
RECURSIVE SpawnForTemplateJobs(_, _, _)
SpawnForTemplateJobs(db, completed_job_id, ts) ==
    IF ts = {} THEN db
    ELSE LET t == CHOOSE u \in ts : \A v \in ts : u <= v
             p == db.jobs[completed_job_id].pipeline_id
             template_job == template_jobs[p][t]
             stage_ids == {x \in DOMAIN stages :
                              /\ stages[x].pipeline_id = p
                              /\ stages[x].stage_order = template_job.template_stage_id}
             db1 == IF \/ template_job.job_multiplier.source_template_job_id
                              # db.jobs[completed_job_id].template_job_id
                       \/ AlreadySpawned(db.jobs, completed_job_id, t)
                       \/ stage_ids = {}
                    THEN db
                    ELSE spawn_multiplied_jobs(db, completed_job_id, t, template_job,
                                               CHOOSE x \in stage_ids : TRUE)
         IN  SpawnForTemplateJobs(db1, completed_job_id, ts \ {t})

check_and_spawn_multiplied_jobs(db, completed_job_id) ==
    IF db.jobs[completed_job_id].template_job_id = 0 THEN db
    ELSE SpawnForTemplateJobs(db, completed_job_id,
                              DOMAIN template_jobs[db.jobs[completed_job_id].pipeline_id])

\* ---------------------------------------------------------------- executor
\* what the command prints on its attempt-th run
AttemptToken == "{{attempt}}"
Output(command, attempt) == ReplaceToken(command, AttemptToken, <<ToString(attempt)>>)

DefaultContextInstruction == <<"IMPORTANT: This is a retry.">>

\* the prompt run_job stores before a retry with context, else the old one
RetryPrompt(row) ==
    IF /\ row.retry_count > 0
       /\ row.retry_strategy.include_context
       /\ row.job_output \notin {Null, NoText}
    THEN (IF row.retry_strategy.context_instruction = Null
          THEN DefaultContextInstruction
          ELSE row.retry_strategy.context_instruction)
         \o <<"=== PREVIOUS ATTEMPT OUTPUT ===">> \o row.job_output
         \o <<"=== ORIGINAL TASK ===">>
         \o (IF row.original_prompt # NoText THEN row.original_prompt ELSE row.prompt)
    ELSE row.prompt

\* `json.loads(job['artifact_strategy'])` raises on a text that is not JSON
MalformedStrategy(row) == row.artifact_strategy = "malformed"

ReasonInternalError == <<"internal_error">>

\* a task that ends without removing its entry
FinallyKeepsEntry(rj, job_id) == rj

\* run_job's `finally`: `if job_id in running_jobs: del running_jobs[job_id]`
Finally(rj, job_id) == [j \in DOMAIN rj \ {job_id} |-> rj[j]]

\* an `except` branch that records the error and leaves the dependents alone
ExceptHandlerWithoutPropagation(js, job_id) ==
    [js EXCEPT ![job_id].status = "failed",
               ![job_id].termination_reason = ReasonInternalError]

\* run_job's `except Exception`: the job is written `failed` with the text of
\* the exception (no completed_at, no job_output) and the failure is propagated
ExceptHandler(js, job_id) ==
    propagate_job_failure(
        [js EXCEPT ![job_id].status = "failed",
                   ![job_id].termination_reason = ReasonInternalError],
        job_id)

\* run_job's `except Exception` and `finally`: the handler runs and the task is
\* dropped.  The exception is raised before the job is set to `running`
\* (malformed strategy JSON), when the subprocess cannot be spawned or read,
\* or when the outcome of the attempt cannot be written.
run_job_raises(job_id) ==
    /\ job_id \in DOMAIN running_jobs
    /\ \/ running_jobs[job_id].pc = "created" /\ MalformedStrategy(jobs[job_id])
       \/ running_jobs[job_id].pc = "subprocess"
       \/ running_jobs[job_id].pc = "exited"
    /\ jobs' = ExceptHandler(jobs, job_id)
    /\ running_jobs' = Finally(running_jobs, job_id)
    /\ uncommitted' = {}
    /\ UNCHANGED <<pipelines, job_dependencies, artifacts, fixed_vars>>

\* run_job up to the start of the subprocess
run_job_start(job_id) ==
    /\ job_id \in DOMAIN running_jobs
    /\ running_jobs[job_id].pc = "created"
    /\ ~ MalformedStrategy(jobs[job_id])
    /\ jobs' = [jobs EXCEPT ![job_id].prompt = RetryPrompt(jobs[job_id]),
                            ![job_id].status = "running",
                            ![job_id].started_at = "set"]
    /\ running_jobs' = [running_jobs EXCEPT ![job_id] =
                           [pc |-> "subprocess",
                            retry_count |-> jobs[job_id].retry_count,
                            max_retries |-> jobs[job_id].max_retries,
                            returncode |-> 0]]
    /\ uncommitted' = {}
    /\ UNCHANGED <<pipelines, job_dependencies, artifacts, fixed_vars>>

\* the subprocess exits with some code
subprocess_exit(job_id, code) ==
    /\ job_id \in DOMAIN running_jobs
    /\ running_jobs[job_id].pc = "subprocess"
    /\ running_jobs' = [running_jobs EXCEPT ![job_id].pc = "exited",
                                           ![job_id].returncode = code]
    /\ UNCHANGED <<pipelines, jobs, job_dependencies, artifacts, uncommitted, fixed_vars>>

\* a retry test that allows one attempt too many
ShouldRetryOffByOne(retry_count, max_retries) == retry_count <= max_retries

\* `if retry_count < max_retries`
ShouldRetry(retry_count, max_retries) == retry_count < max_retries

\* an executor that also counts the attempt it gives up on as a retry
AttemptOutcomeCountsLastFailure(row, returncode, retry_count, max_retries) ==
    IF returncode = 0
    THEN [row EXCEPT !.status = "completed", !.termination_reason = ReasonSuccess]
    ELSE IF ShouldRetry(retry_count, max_retries)
    THEN [row EXCEPT !.status = "pending", !.retry_count = retry_count + 1]
    ELSE [row EXCEPT !.status = "failed", !.retry_count = retry_count + 1,
                     !.termination_reason = ReasonExitCode(returncode, retry_count + 1)]

\* the status, retry count and reason of the job row after the attempt
AttemptOutcome(row, returncode, retry_count, max_retries) ==
    IF returncode = 0
    THEN [row EXCEPT !.status = "completed", !.termination_reason = ReasonSuccess]
    ELSE IF ShouldRetry(retry_count, max_retries)
    THEN [row EXCEPT !.status = "pending", !.retry_count = retry_count + 1]
    ELSE [row EXCEPT !.status = "failed",
                     !.termination_reason = ReasonExitCode(returncode, retry_count + 1)]

\* an executor that stores the output of every attempt
StoreOutputOfEveryAttempt(row, log_output) ==
    IF row.status = "pending" THEN [row EXCEPT !.job_output = log_output]
    ELSE [row EXCEPT !.job_output = log_output, !.completed_at = "set"]

\* `completed_at = ?, job_output = ?` of the final UPDATE; the retry branch
\* returns before it
StoreOutput(row, log_output) ==
    IF row.status = "pending" THEN row
    ELSE [row EXCEPT !.job_output = log_output, !.completed_at = "set"]

\* a multiplier that runs before the artifact collector
MultiplierReadsBeforeCollector(before, after) == before

\* the artifacts rows the multiplier finds: the collector has committed
MultiplierReads(before, after) == after

\* an executor that leaves the fan-out of a completed job to a later step
SpawnDeferred(db, job_id) == db

\* `if status == "completed": .. check_and_spawn_multiplied_jobs(..)`, called
\* after the final UPDATE and the collector with no `await` in between
SpawnOnCompletion(db, job_id) == check_and_spawn_multiplied_jobs(db, job_id)

\* run_job after `await proc.wait()`: outcome, artifact collector, multiplier
\* or propagation, `finally`.
run_job_finish(job_id) ==
    /\ job_id \in DOMAIN running_jobs
    /\ running_jobs[job_id].pc = "exited"
    /\ LET t == running_jobs[job_id]
           log_output == Output(jobs[job_id].command, t.retry_count + 1)
           js1 == [jobs EXCEPT ![job_id] =
                      StoreOutput(
                          AttemptOutcome(jobs[job_id], t.returncode, t.retry_count,
                                         t.max_retries),
                          log_output)]
           arts1 == IF js1[job_id].status = "completed"
                    THEN collect_artifacts(artifacts, job_id,
                                           jobs[job_id].artifact_strategy, log_output)
                    ELSE artifacts
           db == IF js1[job_id].status = "completed"
                 THEN SpawnOnCompletion(
                         [jobs |-> js1, job_dependencies |-> job_dependencies,
                          artifacts |-> MultiplierReads(artifacts, arts1)], job_id)
                 ELSE [jobs |-> IF js1[job_id].status = "failed"
                                THEN propagate_job_failure(js1, job_id)
                                ELSE js1,
                       job_dependencies |-> job_dependencies]
       IN  /\ jobs' = db.jobs
           /\ job_dependencies' = db.job_dependencies
           /\ artifacts' = arts1
    /\ running_jobs' = Finally(running_jobs, job_id)
    /\ uncommitted' = {}
    /\ UNCHANGED <<pipelines, fixed_vars>>

\* ------------------------------------------------------------ specification
Next ==
    \/ \E p \in PipelineIds : start_pipeline(p)
    \/ \E p \in PipelineIds : stop_pipeline(p)
    \/ orchestration_loop
    \/ \E j \in JobIds : run_job_start(j)
    \/ \E j \in JobIds, c \in ExitCodes : subprocess_exit(j, c)
    \/ \E j \in JobIds : run_job_finish(j)

Spec == Init /\ [][Next]_vars

\* the scheduler and the event loop keep running, and every subprocess exits
FairSpec ==
    /\ Spec
    /\ WF_vars(orchestration_loop)
    /\ \A j \in JobIds :
          /\ WF_vars(run_job_start(j))
          /\ WF_vars(\E c \in ExitCodes : subprocess_exit(j, c))
          /\ WF_vars(run_job_finish(j))

\* the scheduler and the event loop keep running, but a subprocess is free never
\* to exit: run_job waits for the end of its output and for `proc.wait()`
\* without a limit
HangSpec ==
    /\ Spec
    /\ WF_vars(orchestration_loop)
    /\ \A j \in JobIds :
          /\ WF_vars(run_job_start(j))
          /\ WF_vars(run_job_finish(j))

\* A server with one template of MaxTemplateJobs plain jobs in one stage, from
\* which a single pipeline is started.  The jobs get no retry (max_retries
\* 0): retries are covered by Spec.
InitInstantiated ==
    /\ pipelines = [p \in PipelineIds |-> "none"]
    /\ stages = EmptyMap
    /\ jobs = EmptyMap
    /\ job_dependencies = {}
    /\ artifacts = {}
    /\ uncommitted = {}
    /\ loop = "sleeping"
    /\ template_jobs = [p \in PipelineIds |-> EmptyMap]
    /\ running_jobs = EmptyMap
    /\ response = NoResponse
    /\ default_max_retries = 0
    /\ \E deps \in TemplateDependencies(1..MaxTemplateJobs) :
          request = [any |-> FALSE, times |-> 1,
                     body |-> Request(OneStageTemplate(MaxTemplateJobs, deps), {}, {})]

NextInstantiated ==
    \/ \E p \in PipelineIds : start_pipeline(p)
    \/ \E p \in PipelineIds : stop_pipeline(p)
    \/ orchestration_loop
    \/ \E j \in 1..MaxTemplateJobs : run_job_start(j)
    \/ \E j \in 1..MaxTemplateJobs, c \in ExitCodes : subprocess_exit(j, c)
    \/ \E j \in 1..MaxTemplateJobs : run_job_finish(j)

SpecInstantiated == InitInstantiated /\ [][NextInstantiated]_vars

\* A server with one template of up to MaxRequestJobs jobs in MaxRequestStages
\* stages; the client POSTs it twice with the same prompt and exclusions, and
\* nothing else happens.
RequestTemplates ==
    UNION {{[stages |-> 1..MaxRequestStages,
             jobs |-> [t \in 1..n |->
                         [template_stage_id |-> stage_of[t],
                          prompt_template |-> <<ToString(t), OriginalPromptToken>>,
                          retry_strategy |-> NoRetryStrategy,
                          artifact_strategy |-> "none",
                          command |-> NoText,
                          job_multiplier |-> NoMultiplier]],
             dependencies |-> deps] :
               stage_of \in [1..n -> 1..MaxRequestStages],
               deps \in TemplateDependencies(1..n)} :
           n \in 0..MaxRequestJobs}

InitTemplates ==
    /\ pipelines = [p \in PipelineIds |-> "none"]
    /\ stages = EmptyMap
    /\ jobs = EmptyMap
    /\ job_dependencies = {}
    /\ artifacts = {}
    /\ uncommitted = {}
    /\ loop = "sleeping"
    /\ template_jobs = [p \in PipelineIds |-> EmptyMap]
    /\ running_jobs = EmptyMap
    /\ response = NoResponse
    /\ default_max_retries = 0
    /\ \E tpl \in RequestTemplates :
          \E es \in SUBSET tpl.stages, ej \in SUBSET DOMAIN tpl.jobs :
              request = [any |-> FALSE, times |-> 2, body |-> Request(tpl, es, ej)]

NextTemplates == \E p \in PipelineIds : start_pipeline(p)

SpecTemplates == InitTemplates /\ [][NextTemplates]_vars

\* A server with one template of two stages: a planner job in stage 1 whose
\* command prints up to MaxItems items, and in stage 2 a job that declares a
\* multiplier on the planner.  One pipeline is started from it, with or
\* without the second stage or the declaring job excluded.  The jobs get no
\* retry or MaxRetries.
ItemTexts == {"t1", IndexToken}

RECURSIVE SeqsUpTo(_, _)
SeqsUpTo(S, n) ==
    IF n = 0 THEN {<<>>}
    ELSE SeqsUpTo(S, n - 1) \cup
         {Append(q, x) : q \in {r \in SeqsUpTo(S, n - 1) : Len(r) = n - 1}, x \in S}

MultiplierPromptTemplate == <<"do", ItemToken, OriginalPromptToken, IndexToken>>

\* the JSON text of the array of the items
RECURSIVE JoinItems(_)
JoinItems(items) ==
    IF items = <<>> THEN <<>>
    ELSE IF Len(items) = 1 THEN <<items[1]>>
    ELSE <<items[1], Comma>> \o JoinItems(Tail(items))

JsonArray(items) == <<LBracket>> \o JoinItems(items) \o <<RBracket>>

MultiplierTemplate(items, artifact_strategy, deps) ==
    [stages |-> {1, 2},
     jobs |-> [t \in {1, 2} |->
                 [template_stage_id |-> t,
                  prompt_template |-> <<OriginalPromptToken>>,
                  retry_strategy |-> NoRetryStrategy,
                  artifact_strategy |-> IF t = 1 THEN artifact_strategy ELSE "none",
                  command |-> IF t = 1 THEN JsonArray(items) ELSE NoText,
                  job_multiplier |->
                      IF t = 1 THEN NoMultiplier
                      ELSE [source_template_job_id |-> 1,
                            parse_strategy |-> "json_array",
                            prompt_template |-> MultiplierPromptTemplate]]],
     dependencies |-> deps]

MultiplierJobIds == 1..(2 + MaxItems)

InitMultiplier ==
    /\ pipelines = [p \in PipelineIds |-> "none"]
    /\ stages = EmptyMap
    /\ jobs = EmptyMap
    /\ job_dependencies = {}
    /\ artifacts = {}
    /\ uncommitted = {}
    /\ loop = "sleeping"
    /\ template_jobs = [p \in PipelineIds |-> EmptyMap]
    /\ running_jobs = EmptyMap
    /\ response = NoResponse
    /\ default_max_retries \in {0, MaxRetries}
    /\ \E items \in SeqsUpTo(ItemTexts, MaxItems),
          artifact_strategy \in {"stdout_final", "none"},
          deps \in {ds \in TemplateDependencies({1, 2}) :
                      \A d \in ds : d.dependency_type = "success"},
          es \in SUBSET {2}, ej \in SUBSET {2} :
          request = [any |-> FALSE, times |-> 1,
                     body |-> Request(MultiplierTemplate(items, artifact_strategy, deps),
                                      es, ej)]

\* a further call of check_and_spawn_multiplied_jobs for a completed job (a
\* re-check after a restart)
check_and_spawn_again(job_id) ==
    /\ job_id \in DOMAIN jobs
    /\ jobs[job_id].status = "completed"
    /\ LET db == check_and_spawn_multiplied_jobs(
                     [jobs |-> jobs, job_dependencies |-> job_dependencies,
                      artifacts |-> artifacts], job_id)
       IN  /\ jobs' = db.jobs
           /\ job_dependencies' = db.job_dependencies
           /\ uncommitted' = IF db.jobs # jobs THEN {} ELSE uncommitted
    /\ UNCHANGED <<pipelines, artifacts, running_jobs, fixed_vars>>

NextMultiplier ==
    \/ \E p \in PipelineIds : start_pipeline(p)
    \/ orchestration_loop
    \/ \E j \in MultiplierJobIds : run_job_start(j)
    \/ \E j \in MultiplierJobIds, c \in ExitCodes : subprocess_exit(j, c)
    \/ \E j \in MultiplierJobIds : run_job_finish(j)
    \/ \E j \in MultiplierJobIds : check_and_spawn_again(j)

SpecMultiplier == InitMultiplier /\ [][NextMultiplier]_vars

\* A server with one template of MaxJobs independent jobs in one stage that
\* share a retry strategy and a command; the command prints nothing or a text
\* that names the attempt.  One pipeline is started from it.
RetryStrategies ==
    [include_context : BOOLEAN, context_instruction : {Null, <<"again">>}]

RetryTemplate(retry_strategy, command) ==
    [stages |-> {1},
     jobs |-> [t \in 1..MaxJobs |->
                 [template_stage_id |-> 1,
                  prompt_template |-> <<"task", OriginalPromptToken>>,
                  retry_strategy |-> retry_strategy,
                  artifact_strategy |-> "none",
                  command |-> command,
                  job_multiplier |-> NoMultiplier]],
     dependencies |-> {}]

InitRetry ==
    /\ pipelines = [p \in PipelineIds |-> "none"]
    /\ stages = EmptyMap
    /\ jobs = EmptyMap
    /\ job_dependencies = {}
    /\ artifacts = {}
    /\ uncommitted = {}
    /\ loop = "sleeping"
    /\ template_jobs = [p \in PipelineIds |-> EmptyMap]
    /\ running_jobs = EmptyMap
    /\ response = NoResponse
    /\ default_max_retries \in 0..(MaxRetries + 1)
    /\ \E retry_strategy \in RetryStrategies \cup {NoRetryStrategy},
          command \in {NoText, <<"out", AttemptToken>>} :
          request = [any |-> FALSE, times |-> 1,
                     body |-> Request(RetryTemplate(retry_strategy, command), {}, {})]

NextRetry ==
    \/ \E p \in PipelineIds : start_pipeline(p)
    \/ orchestration_loop
    \/ \E j \in JobIds : run_job_start(j)
    \/ \E j \in JobIds, c \in ExitCodes : subprocess_exit(j, c)
    \/ \E j \in JobIds : run_job_finish(j)

SpecRetry == InitRetry /\ [][NextRetry]_vars

\* The planner of SpecParse prints any text of up to MaxContentLen tokens, and
\* the job of stage 2 declares a multiplier on it with any parse_strategy, one
\* of them unknown to the parser.  No retry, no exclusion, no dependency.
ContentTokens == {"t1", LBracket, RBracket, Comma, Newline, Space}
ParseStrategies == {"json_array", "line_delimited", "comma_separated", "tab_separated"}
ParsePromptTemplate == <<"do", ItemToken>>

ParseTemplate(content, parse_strategy) ==
    [stages |-> {1, 2},
     jobs |-> [t \in {1, 2} |->
                 [template_stage_id |-> t,
                  prompt_template |-> <<OriginalPromptToken>>,
                  retry_strategy |-> NoRetryStrategy,
                  artifact_strategy |-> IF t = 1 THEN "stdout_final" ELSE "none",
                  command |-> IF t = 1 THEN content ELSE NoText,
                  job_multiplier |->
                      IF t = 1 THEN NoMultiplier
                      ELSE [source_template_job_id |-> 1,
                            parse_strategy |-> parse_strategy,
                            prompt_template |-> ParsePromptTemplate]]],
     dependencies |-> {}]

ParseJobIds == 1..(2 + MaxContentLen)

InitParse ==
    /\ pipelines = [p \in PipelineIds |-> "none"]
    /\ stages = EmptyMap
    /\ jobs = EmptyMap
    /\ job_dependencies = {}
    /\ artifacts = {}
    /\ uncommitted = {}
    /\ loop = "sleeping"
    /\ template_jobs = [p \in PipelineIds |-> EmptyMap]
    /\ running_jobs = EmptyMap
    /\ response = NoResponse
    /\ default_max_retries = 0
    /\ \E content \in SeqsUpTo(ContentTokens, MaxContentLen),
          parse_strategy \in ParseStrategies :
          request = [any |-> FALSE, times |-> 1,
                     body |-> Request(ParseTemplate(content, parse_strategy), {}, {})]

NextParse ==
    \/ \E p \in PipelineIds : start_pipeline(p)
    \/ orchestration_loop
    \/ \E j \in ParseJobIds : run_job_start(j)
    \/ \E j \in ParseJobIds, c \in ExitCodes : subprocess_exit(j, c)
    \/ \E j \in ParseJobIds : run_job_finish(j)

SpecParse == InitParse /\ [][NextParse]_vars

\* A server with the one template `build` (one job), and a client that sends
\* up to MaxRequests requests naming known and unknown templates and pipelines
\* and reads the replies, while the scheduler and the executor run.  A
\* pipeline id without a row is an unknown pipeline.
TemplateNames == {"build", "nonexistent"}
KnownTemplates == {"build"}

Reply(op, template_id, pipeline_id, code) ==
    [n |-> response.n + 1, op |-> op, template_id |-> template_id,
     pipeline_id |-> pipeline_id, code |-> code]

\* GET /pipelines/templates/{template_id}
get_template_details(template_id) ==
    /\ response.n < MaxRequests
    /\ response' = Reply("get_template", template_id, 0,
                         IF template_id \in KnownTemplates THEN 200 ELSE 404)
    /\ UNCHANGED <<pipelines, stages, jobs, job_dependencies, artifacts, uncommitted,
                   template_jobs, running_jobs, default_max_retries, request, loop>>

\* POST /pipelines/{template_id}/start: ValueError of instantiate_template
\* becomes 404
post_start(template_id) ==
    /\ response.n < MaxRequests
    /\ IF template_id \in KnownTemplates
       THEN \E p \in PipelineIds :
               /\ pipelines[p] = "none"
               /\ \A q \in PipelineIds : q < p => pipelines[q] # "none"
               /\ instantiate_template(p, request.body.template,
                                       request.body.original_prompt,
                                       request.body.excluded_stage_ids,
                                       request.body.excluded_job_ids)
               /\ response' = Reply("start", template_id, p, 200)
               /\ uncommitted' = {}
       ELSE /\ response' = Reply("start", template_id, 0, 404)
            /\ UNCHANGED <<pipelines, stages, jobs, job_dependencies, uncommitted,
                           template_jobs>>
    /\ UNCHANGED <<artifacts, running_jobs, default_max_retries, request, loop>>

\* GET /pipelines/{pipeline_id}
get_pipeline(pipeline_id) ==
    /\ response.n < MaxRequests
    /\ response' = Reply("get_pipeline", "", pipeline_id,
                         IF pipelines[pipeline_id] = "none" THEN 404 ELSE 200)
    /\ UNCHANGED <<pipelines, stages, jobs, job_dependencies, artifacts, uncommitted,
                   template_jobs, running_jobs, default_max_retries, request, loop>>

\* POST /pipelines/{pipeline_id}/stop: the UPDATE matches no row of an unknown
\* pipeline, and the handler returns the service's dict (200) all the same
post_stop(pipeline_id) ==
    /\ response.n < MaxRequests
    /\ pipelines' = IF pipelines[pipeline_id] = "none" THEN pipelines
                    ELSE [pipelines EXCEPT ![pipeline_id] = "cancelled"]
    /\ response' = Reply("stop", "", pipeline_id, 200)
    /\ uncommitted' = {}
    /\ UNCHANGED <<stages, jobs, job_dependencies, artifacts, template_jobs,
                   running_jobs, default_max_retries, request, loop>>

InitHttp ==
    /\ pipelines = [p \in PipelineIds |-> "none"]
    /\ stages = EmptyMap
    /\ jobs = EmptyMap
    /\ job_dependencies = {}
    /\ artifacts = {}
    /\ uncommitted = {}
    /\ loop = "sleeping"
    /\ template_jobs = [p \in PipelineIds |-> EmptyMap]
    /\ running_jobs = EmptyMap
    /\ response = NoResponse
    /\ default_max_retries = 0
    /\ request = [any |-> FALSE, times |-> MaxPipelines,
                  body |-> Request(OneStageTemplate(1, {}), {}, {})]

NextHttp ==
    \/ \E t \in TemplateNames : get_template_details(t)
    \/ \E t \in TemplateNames : post_start(t)
    \/ \E p \in PipelineIds : get_pipeline(p)
    \/ \E p \in PipelineIds : post_stop(p)
    \/ orchestration_loop
    \/ \E j \in JobIds : run_job_start(j)
    \/ \E j \in JobIds, c \in ExitCodes : subprocess_exit(j, c)
    \/ \E j \in JobIds : run_job_finish(j)

SpecHttp == InitHttp /\ [][NextHttp]_vars

\* A server with one template of MaxJobs jobs in one stage, with any
\* dependency rows, whose artifact_strategy texts are JSON or not; one pipeline
\* is started from it, and the executor may fail to spawn a subprocess.  The
\* jobs print nothing, or a text that tells the attempts apart.
ErrorTemplate(artifact_strategy, command, deps) ==
    [stages |-> {1},
     jobs |-> [t \in 1..MaxJobs |->
                 [template_stage_id |-> 1,
                  prompt_template |-> <<OriginalPromptToken>>,
                  retry_strategy |-> NoRetryStrategy,
                  artifact_strategy |-> artifact_strategy[t],
                  command |-> command,
                  job_multiplier |-> NoMultiplier]],
     dependencies |-> deps]

InitErrors ==
    /\ pipelines = [p \in PipelineIds |-> "none"]
    /\ stages = EmptyMap
    /\ jobs = EmptyMap
    /\ job_dependencies = {}
    /\ artifacts = {}
    /\ uncommitted = {}
    /\ loop = "sleeping"
    /\ template_jobs = [p \in PipelineIds |-> EmptyMap]
    /\ running_jobs = EmptyMap
    /\ response = NoResponse
    /\ default_max_retries \in {0, MaxRetries}
    /\ \E artifact_strategy \in [1..MaxJobs -> {"none", "malformed"}],
          command \in {NoText, <<"out", AttemptToken>>},
          deps \in TemplateDependencies(1..MaxJobs) :
          request = [any |-> FALSE, times |-> 1,
                     body |-> Request(ErrorTemplate(artifact_strategy, command, deps),
                                      {}, {})]

NextErrors ==
    \/ \E p \in PipelineIds : start_pipeline(p)
    \/ orchestration_loop
    \/ \E j \in JobIds : run_job_start(j)
    \/ \E j \in JobIds : run_job_raises(j)
    \/ \E j \in JobIds, c \in ExitCodes : subprocess_exit(j, c)
    \/ \E j \in JobIds : run_job_finish(j)

SpecErrors == InitErrors /\ [][NextErrors]_vars

\* A server with the planner template of SpecMultiplier (stdout_final, the
\* planner prints the one item "t1", no exclusion, no retry), from which up to
\* MaxPipelines pipelines are started while the scheduler and the executor
\* run.
SharedJobIds == 1..(MaxPipelines * 3)

InitShared ==
    /\ pipelines = [p \in PipelineIds |-> "none"]
    /\ stages = EmptyMap
    /\ jobs = EmptyMap
    /\ job_dependencies = {}
    /\ artifacts = {}
    /\ uncommitted = {}
    /\ loop = "sleeping"
    /\ template_jobs = [p \in PipelineIds |-> EmptyMap]
    /\ running_jobs = EmptyMap
    /\ response = NoResponse
    /\ default_max_retries = 0
    /\ \E items \in {<<"t1">>},
          deps \in {ds \in TemplateDependencies({1, 2}) :
                      \A d \in ds : d.dependency_type = "success"} :
          request = [any |-> FALSE, times |-> MaxPipelines,
                     body |-> Request(MultiplierTemplate(items, "stdout_final", deps),
                                      {}, {})]

NextShared ==
    \/ \E p \in PipelineIds : start_pipeline(p)
    \/ orchestration_loop
    \/ \E j \in SharedJobIds : run_job_start(j)
    \/ \E j \in SharedJobIds, c \in ExitCodes : subprocess_exit(j, c)
    \/ \E j \in SharedJobIds : run_job_finish(j)

SpecShared == InitShared /\ [][NextShared]_vars

\* A server with one template of MaxJobs plain jobs in one or two stages, with
\* any dependency rows.  A POST starts a pipeline from it, or fails inside
\* instantiate_template after the pipeline row was inserted; the handler turns
\* only ValueError into 404, so the client reads 500.  The scheduler and the
\* executor run on the same connection.
AtomicTemplate(stage_of, deps) ==
    [stages |-> {stage_of[t] : t \in 1..MaxJobs},
     jobs |-> [t \in 1..MaxJobs |->
                 [template_stage_id |-> stage_of[t],
                  prompt_template |-> <<OriginalPromptToken>>,
                  retry_strategy |-> NoRetryStrategy,
                  artifact_strategy |-> "none",
                  command |-> NoText,
                  job_multiplier |-> NoMultiplier]],
     dependencies |-> deps]

AtomicJobIds == 1..(MaxPipelines * MaxJobs)

InitAtomic ==
    /\ pipelines = [p \in PipelineIds |-> "none"]
    /\ stages = EmptyMap
    /\ jobs = EmptyMap
    /\ job_dependencies = {}
    /\ artifacts = {}
    /\ uncommitted = {}
    /\ loop = "sleeping"
    /\ template_jobs = [p \in PipelineIds |-> EmptyMap]
    /\ running_jobs = EmptyMap
    /\ response = NoResponse
    /\ default_max_retries = 0
    /\ \E stage_of \in [1..MaxJobs -> {1, 2}],
          deps \in TemplateDependencies(1..MaxJobs) :
          /\ \A t, u \in 1..MaxJobs : t < u => stage_of[t] <= stage_of[u]
          /\ request = [any |-> FALSE, times |-> MaxPipelines,
                        body |-> Request(AtomicTemplate(stage_of, deps), {}, {})]

\* POST /pipelines/{template_id}/start when instantiate_template raises at the
\* template job fail_at (0: at the first dependency row)
post_start_raises(p, fail_at) ==
    /\ pipelines[p] = "none"
    /\ \A q \in PipelineIds : q < p => pipelines[q] # "none"
    /\ fail_at \in DOMAIN request.body.template.jobs \cup {0}
    /\ instantiate_template_raises(p, request.body.template,
                                   request.body.original_prompt, fail_at)
    /\ response' = Reply("start", "build", p, 500)
    /\ UNCHANGED <<artifacts, running_jobs, default_max_retries, request, loop>>

NextAtomic ==
    \/ \E p \in PipelineIds : start_pipeline(p)
    \/ \E p \in PipelineIds, fail_at \in 0..MaxJobs : post_start_raises(p, fail_at)
    \/ orchestration_loop
    \/ \E j \in AtomicJobIds : run_job_start(j)
    \/ \E j \in AtomicJobIds, c \in ExitCodes : subprocess_exit(j, c)
    \/ \E j \in AtomicJobIds : run_job_finish(j)

SpecAtomic == InitAtomic /\ [][NextAtomic]_vars

\* ------------------------------------------------------ artifact strategies
\* A strategy config is the dict {"type": .., "strategies": [..]}; NoType is
\* a dict without the key "type" (the empty dict among them), and a dict
\* without the key "strategies" has the empty list.
MaxStrategies == 2
NoType == "(no type)"
StrategyConfig(type, strategies) == [type |-> type, strategies |-> strategies]
LeafConfigs ==
    {StrategyConfig(t, <<>>) : t \in {"stdout_final", "git_diff", "no_such_type", NoType}}
InnerConfigs ==
    LeafConfigs \cup {StrategyConfig("composite", s) : s \in SeqsUpTo(LeafConfigs, 1)}
StrategyConfigs ==
    LeafConfigs \cup
    {StrategyConfig("composite", s) : s \in SeqsUpTo(InnerConfigs, MaxStrategies)}

\* final_output: None, the empty text or a text
FinalOutputs == {Null, NoText, <<"out">>}

\* the changed and new files git reports, in the order the set is iterated
ChangedFiles == {<<>>, <<"a.py">>, <<"a.py", "b.py">>}

Strategy(class, strategies) == [class |-> class, strategies |-> strategies]

\* get_strategy: the strategy object of a config
RECURSIVE get_strategy(_)
get_strategy(strategy_config) ==
    LET strategy_type == IF strategy_config.type = NoType THEN "stdout_final"
                         ELSE strategy_config.type
    IN  IF strategy_type = "stdout_final" THEN Strategy("StdoutFinalStrategy", <<>>)
        ELSE IF strategy_type = "git_diff" THEN Strategy("GitDiffStrategy", <<>>)
        ELSE IF strategy_type = "composite"
        THEN Strategy("CompositeStrategy",
                      [i \in 1..Len(strategy_config.strategies) |->
                          get_strategy(strategy_config.strategies[i])])
        ELSE Strategy("StdoutFinalStrategy", <<>>)

\* StdoutFinalStrategy.collect_artifacts: the list it returns
StdoutFinalStrategy(job_id, final_output) ==
    IF final_output \in {Null, NoText} THEN <<>>
    ELSE <<[job_id |-> job_id, type |-> "model_output", name |-> "final_output.txt",
            file_path |-> Null, content |-> final_output]>>

\* GitDiffStrategy.collect_artifacts: one file artifact per changed file
GitDiffStrategy(job_id, files) ==
    [i \in 1..Len(files) |->
        [job_id |-> job_id, type |-> "file", name |-> <<files[i]>>,
         file_path |-> <<files[i]>>, content |-> Null]]

RECURSIVE StrategyArtifacts(_, _, _, _), CompositeStrategy(_, _, _, _)

\* a composite that stops after its first strategy
CompositeStrategyFirstOnly(strategies, job_id, final_output, files) ==
    IF strategies = <<>> THEN <<>>
    ELSE StrategyArtifacts(Head(strategies), job_id, final_output, files)

\* CompositeStrategy.collect_artifacts: `all_artifacts.extend(artifacts)` for
\* each strategy in turn
CompositeStrategy(strategies, job_id, final_output, files) ==
    IF strategies = <<>> THEN <<>>
    ELSE StrategyArtifacts(Head(strategies), job_id, final_output, files)
         \o CompositeStrategy(Tail(strategies), job_id, final_output, files)

\* strategy.collect_artifacts(job_id, job_dir, final_output, db_conn)
StrategyArtifacts(strategy, job_id, final_output, files) ==
    IF strategy.class = "StdoutFinalStrategy"
    THEN StdoutFinalStrategy(job_id, final_output)
    ELSE IF strategy.class = "GitDiffStrategy"
    THEN GitDiffStrategy(job_id, files)
    ELSE CompositeStrategy(strategy.strategies, job_id, final_output, files)

\* the artifacts table after the INSERTs of the list, each row with a new id
InsertArtifacts(arts, list) ==
    arts \cup {[artifact_id |-> Cardinality(arts) + i, job_id |-> list[i].job_id,
                type |-> list[i].type, name |-> list[i].name,
                file_path |-> list[i].file_path, content |-> list[i].content] :
               i \in 1..Len(list)}

\* get_strategy(config).collect_artifacts(..) for a job, once per job as in
\* run_job; only the artifacts table is written
strategy_collect_artifacts(job_id) ==
    /\ job_id \in DOMAIN jobs
    /\ \A a \in artifacts : a.job_id # job_id
    /\ LET list == StrategyArtifacts(get_strategy(request.strategy_config), job_id,
                                     request.final_output, request.files)
       IN  /\ artifacts' = InsertArtifacts(artifacts, list)
           /\ uncommitted' = IF list # <<>> THEN {} ELSE uncommitted
    /\ UNCHANGED <<pipelines, jobs, job_dependencies, running_jobs, fixed_vars>>

\* One job, running or completed, of a running pipeline; the collector of any
\* strategy config is applied to it with any final output and any changed
\* files in the workspace.
InitStrategies ==
    /\ pipelines = [p \in PipelineIds |-> IF p = 1 THEN "running" ELSE "none"]
    /\ stages = (1 :> [pipeline_id |-> 1, stage_order |-> 1])
    /\ default_max_retries = 0
    /\ \E status \in {"running", "completed"} :
          jobs = (1 :> [NewJobRow(1, 1, 1, OneStageTemplate(1, {}).jobs[1], OriginalPrompt)
                           EXCEPT !.status = status])
    /\ job_dependencies = {}
    /\ artifacts = {}
    /\ uncommitted = {}
    /\ loop = "sleeping"
    /\ template_jobs = [p \in PipelineIds |-> EmptyMap]
    /\ running_jobs = EmptyMap
    /\ response = NoResponse
    /\ \E strategy_config \in StrategyConfigs, final_output \in FinalOutputs,
          files \in ChangedFiles :
          request = [strategy_config |-> strategy_config,
                     final_output |-> final_output, files |-> files]

NextStrategies == \E j \in JobIds : strategy_collect_artifacts(j)

SpecStrategies == InitStrategies /\ [][NextStrategies]_vars

\* ================================================================== claims
\* The type-specific precondition of a dependency edge (section 4.6).
EdgeSatisfied(d) ==
    LET s == jobs[d.depends_on_job_id].status
    IN  \/ d.dependency_type = "success" /\ s = "completed"
        \/ d.dependency_type = "failure" /\ s = "failed"
        \/ d.dependency_type = "always" /\ s \in {"completed", "failed"}

IncomingEdges(j) == {d \in job_dependencies : d.job_id = j}

\* the jobs for which this step launches an executor
Launched == DOMAIN running_jobs' \ DOMAIN running_jobs

\* C1: whenever the scheduler launches an executor for a job, every incoming
\* dependency edge of that job satisfies its type-specific precondition at
\* selection time.
C1_StartRespectsDependencyTypes ==
    [][\A j \in Launched : \A d \in IncomingEdges(j) : EdgeSatisfied(d)]_vars

Eligible(j) ==
    /\ j \in DOMAIN jobs
    /\ jobs[j].status = "pending"
    /\ pipelines[jobs[j].pipeline_id] = "running"
    /\ \A d \in IncomingEdges(j) : EdgeSatisfied(d)

\* C2: a pending job of a running pipeline all of whose incoming edges are
\* satisfied is eventually dispatched (or stops being eligible).
C2_EligibleJobEventuallyDispatched ==
    \A j \in JobIds : Eligible(j) ~> (j \in DOMAIN running_jobs \/ ~Eligible(j))

\* C3: at most one job has status running and running_jobs holds at most one
\* entry, in every reachable state.
C3_SingleWorker ==
    /\ Cardinality({j \in DOMAIN jobs : jobs[j].status = "running"}) <= 1
    /\ Cardinality(DOMAIN running_jobs) <= 1

\* C3 witness: a job is running while a job of another running pipeline is
\* ready to be selected.
C3_Witness ==
    \E j \in DOMAIN jobs, k \in ReadyJobs(jobs) :
        /\ jobs[j].status = "running"
        /\ j \in DOMAIN running_jobs
        /\ jobs[k].pipeline_id # jobs[j].pipeline_id
        /\ pipelines[jobs[k].pipeline_id] = "running"
        /\ pipelines[jobs[j].pipeline_id] = "running"

\* C4: the scheduler never launches an executor for a job of a cancelled
\* pipeline.
C4_NoDispatchFromCancelledPipeline ==
    [][\A j \in Launched : pipelines[jobs[j].pipeline_id] # "cancelled"]_vars

\* C5: terminal job statuses are absorbing: once a job is completed, failed or
\* skipped no step changes its status.
C5_TerminalJobStatusAbsorbing ==
    [][\A j \in DOMAIN jobs :
          jobs[j].status \in TerminalJobStatus => jobs'[j].status = jobs[j].status]_vars

\* the executor tasks that end in this step, after their subprocess has exited
Finishing == {j \in DOMAIN running_jobs : running_jobs[j].pc = "exited" /\ j \notin DOMAIN running_jobs'}

TaskPosition(pc) == CASE pc = "created" -> 0 [] pc = "subprocess" -> 1 [] pc = "exited" -> 2

\* C6: one executor attempt on a job with retry count r and limit m: exit code
\* 0 gives completed / success with r unchanged; a non-zero code with r < m
\* gives pending with retry count r+1 and no termination reason written; a
\* non-zero code c with r >= m gives failed with reason
\* exit_code_<c>_after_<r+1>_attempts.  A task never runs a second attempt.
C6_AttemptOutcome ==
    [][/\ \A j \in Finishing :
             LET r == jobs[j].retry_count
                 m == jobs[j].max_retries
                 c == running_jobs[j].returncode
             IN  /\ c = 0 =>
                       /\ jobs'[j].status = "completed"
                       /\ jobs'[j].termination_reason = ReasonSuccess
                       /\ jobs'[j].retry_count = r
                 /\ (c # 0 /\ r < m) =>
                       /\ jobs'[j].status = "pending"
                       /\ jobs'[j].retry_count = r + 1
                       /\ jobs'[j].termination_reason = jobs[j].termination_reason
                 /\ (c # 0 /\ r >= m) =>
                       /\ jobs'[j].status = "failed"
                       /\ jobs'[j].termination_reason = ReasonExitCode(c, r + 1)
                       /\ jobs'[j].retry_count = r
       /\ \A j \in DOMAIN running_jobs \cap DOMAIN running_jobs' :
             TaskPosition(running_jobs'[j].pc) >= TaskPosition(running_jobs[j].pc)
      ]_vars

\* C6 witness: a job has failed for good with exit code 1 on the attempt after
\* its last retry.
C6_Witness ==
    \E j \in DOMAIN jobs :
        /\ jobs[j].status = "failed"
        /\ jobs[j].max_retries >= 1
        /\ jobs[j].termination_reason = ReasonExitCode(1, jobs[j].max_retries + 1)

\* C7: every job has retry_count <= max_retries, and a failed job is never set
\* back to pending.
C7_RetryCountBounded ==
    /\ [](\A j \in DOMAIN jobs : jobs[j].retry_count <= jobs[j].max_retries)
    /\ [][\A j \in DOMAIN jobs : jobs[j].status = "failed" => jobs'[j].status # "pending"]_vars

\* C7 witness: a job has used up its retries and is queued for its last attempt
\* while another job has already failed.
C7_Witness ==
    \E j, k \in DOMAIN jobs :
        /\ jobs[j].status = "pending"
        /\ jobs[j].max_retries >= 1
        /\ jobs[j].retry_count = jobs[j].max_retries
        /\ jobs[k].status = "failed"

SkippedByDeadlock(j) ==
    jobs[j].status = "skipped" /\ jobs[j].termination_reason = ReasonDeadlocked

SuccessDependents(j) ==
    {d.job_id : d \in {e \in job_dependencies :
                          e.depends_on_job_id = j /\ e.dependency_type = "success"}}

JobEnded(j) ==
    /\ j \in DOMAIN jobs
    /\ \/ jobs[j].status \in {"completed", "failed"}
       \/ pipelines[jobs[j].pipeline_id] = "cancelled"
       \/ SkippedByDeadlock(j)

\* C8: a job whose dependencies are all satisfied ends completed or failed
\* (unless its pipeline is cancelled or deadlocked meanwhile); it is completed
\* with reason success, or failed with retry_count = max_retries and reason
\* exit_code_<c>_after_<max_retries+1>_attempts; after it has failed it is never
\* attempted again, its success-dependents are skipped and its pipeline
\* becomes failed (unless cancelled).
C8_RetrySequenceTerminates ==
    /\ \A j \in JobIds :
          Eligible(j) ~> JobEnded(j)
    /\ [](\A j \in DOMAIN jobs :
            /\ jobs[j].status = "completed" => jobs[j].termination_reason = ReasonSuccess
            /\ jobs[j].status = "failed" =>
                  /\ jobs[j].retry_count = jobs[j].max_retries
                  /\ \E c \in ExitCodes \ {0} :
                        jobs[j].termination_reason = ReasonExitCode(c, jobs[j].max_retries + 1)
                  /\ j \notin DOMAIN running_jobs
                  /\ \A k \in SuccessDependents(j) :
                        /\ jobs[k].status = "skipped"
                        /\ jobs[k].termination_reason \in {ReasonDependencyFailed, ReasonDeadlocked})
    /\ \A j \in JobIds :
          (j \in DOMAIN jobs /\ jobs[j].status = "failed")
             ~> (j \in DOMAIN jobs /\ pipelines[jobs[j].pipeline_id] \in {"failed", "cancelled"})

\* C9: whenever a pipeline is completed or failed, every job under it is
\* terminal.
C9_FinalisedPipelineHasOnlyTerminalJobs ==
    \A p \in PipelineIds :
        pipelines[p] \in {"completed", "failed"} =>
            \A j \in JobsOf(jobs, p) : jobs[j].status \in TerminalJobStatus

AllJobsTerminal(p) == \A j \in JobsOf(jobs, p) : jobs[j].status \in TerminalJobStatus
SomeJobFailed(p) == \E j \in JobsOf(jobs, p) : jobs[j].status = "failed"

\* C10 as stated: a pipeline is failed iff it is terminal with at least one
\* failed job, and a terminal pipeline with no failed job is completed.
C10_FailedIffSomeJobFailed ==
    \A p \in PipelineIds :
        /\ pipelines[p] = "failed" => SomeJobFailed(p)
        /\ pipelines[p] = "completed" => ~SomeJobFailed(p)

\* C10 amended: a completed pipeline has only terminal jobs and none of them
\* failed; a pipeline becomes failed only in a completion check that finds all
\* its jobs terminal with at least one failed, or that detects a deadlock and
\* skips the pending jobs with reason pipeline_deadlocked (then no job need be
\* failed); a check that finds all jobs terminal and none failed completes it.
C10_PipelineStatusAmended ==
    /\ [](\A p \in PipelineIds :
            pipelines[p] = "completed" => AllJobsTerminal(p) /\ ~SomeJobFailed(p))
    /\ [][\A p \in PipelineIds :
            /\ (pipelines[p] # "failed" /\ pipelines'[p] = "failed") =>
                  \/ AllJobsTerminal(p) /\ SomeJobFailed(p)
                  \/ \E j \in JobsOf(jobs, p) :
                        /\ jobs[j].status = "pending"
                        /\ jobs'[j].status = "skipped"
                        /\ jobs'[j].termination_reason = ReasonDeadlocked
            /\ (pipelines[p] # "completed" /\ pipelines'[p] = "completed") =>
                  AllJobsTerminal(p) /\ ~SomeJobFailed(p)
         ]_vars

\* C10 witness: a pipeline failed by deadlock detection none of whose jobs is
\* failed.
C10_Witness ==
    \E p \in PipelineIds :
        /\ pipelines[p] = "failed"
        /\ ~SomeJobFailed(p)
        /\ \E j \in JobsOf(jobs, p) : SkippedByDeadlock(j)

\* ------------------------------------------------------------------ C11..C13
Store == [pipelines |-> pipelines, jobs |-> jobs]

\* C11: check_pipeline_completion on a running pipeline whose jobs are all
\* terminal (any number of jobs, none included) returns normally, sets the
\* pipeline to failed if some job is failed and to completed otherwise, and
\* changes no job and no other pipeline.
C11_CompletionCheckAllTerminal ==
    \A p \in PipelineIds :
        (pipelines[p] = "running" /\ AllJobsTerminal(p)) =>
            /\ ~CheckRaises(jobs, p)
            /\ check_pipeline_completion(Store, p) =
                  [pipelines |-> [pipelines EXCEPT ![p] =
                                     IF SomeJobFailed(p) THEN "failed" ELSE "completed"],
                   jobs |-> jobs]

TerminalPipelineStatus == {"completed", "failed", "cancelled"}

\* C12: a pipeline is created pending, becomes running only from pending, and
\* once its status is completed, failed or cancelled no step changes it.
C12_PipelineLifecycle ==
    [][\A p \in PipelineIds :
          /\ (pipelines[p] = "none" /\ pipelines'[p] # "none") => pipelines'[p] = "pending"
          /\ (pipelines[p] # "running" /\ pipelines'[p] = "running") => pipelines[p] = "pending"
          /\ pipelines[p] \in TerminalPipelineStatus => pipelines'[p] = pipelines[p]
      ]_vars

\* C13: under fair ticks and exiting subprocesses every pipeline that is
\* running eventually is completed, failed or cancelled.
C13_NoPipelineStuck ==
    \A p \in PipelineIds :
        (pipelines[p] = "running") ~> (pipelines[p] \in TerminalPipelineStatus)

\* ------------------------------------------------------------------ C14, C15
\* the jobs that become failed in this step
NewlyFailed == {j \in DOMAIN jobs : jobs[j].status # "failed" /\ jobs'[j].status = "failed"}

\* One more layer of pending jobs with a success edge on F or on a job of R.
SuccessLayer(F, R) ==
    R \cup {d.job_id : d \in {e \in job_dependencies :
                                 /\ e.dependency_type = "success"
                                 /\ e.depends_on_job_id \in R \cup {F}
                                 /\ jobs[e.job_id].status = "pending"}}

\* The pending jobs reachable from F through success edges over pending jobs.
RECURSIVE SuccessReachFrom(_, _)
SuccessReachFrom(F, R) ==
    IF SuccessLayer(F, R) = R THEN R ELSE SuccessReachFrom(F, SuccessLayer(F, R))

\* C14: when a job F fails for good, exactly the pending jobs reachable from F
\* through chains of success edges over pending jobs become skipped with reason
\* dependency_failed; every other job row (a dependent with only a failure or
\* always edge, a job that is not pending) is left as it was.
C14_FailurePropagation ==
    [][\A F \in NewlyFailed :
          \A k \in DOMAIN jobs \ {F} :
              jobs'[k] = IF k \in SuccessReachFrom(F, {})
                         THEN [jobs[k] EXCEPT !.status = "skipped",
                                              !.completed_at = "set",
                                              !.termination_reason = ReasonDependencyFailed]
                         ELSE jobs[k]
      ]_vars

\* C14 witness: the failure of job 1 has skipped job 2 and, through job 2 only,
\* job 3, while a failure edge alone would not have.
C14_Witness ==
    /\ DOMAIN jobs = 1..3
    /\ jobs[1].status = "failed"
    /\ jobs[2].status = "skipped" /\ jobs[2].termination_reason = ReasonDependencyFailed
    /\ jobs[3].status = "skipped" /\ jobs[3].termination_reason = ReasonDependencyFailed
    /\ [job_id |-> 3, depends_on_job_id |-> 2, dependency_type |-> "success"] \in job_dependencies
    /\ [job_id |-> 3, depends_on_job_id |-> 1, dependency_type |-> "failure"] \in job_dependencies

\* An edge is potentially satisfiable (section 4.7): its dependency is still in
\* motion, or its precondition already holds.
PotentiallySatisfiable(d) ==
    \/ jobs[d.depends_on_job_id].status \in {"pending", "running"}
    \/ EdgeSatisfied(d)

DeadlockedJobs(p) ==
    {j \in JobsOf(jobs, p) :
        /\ jobs[j].status = "pending"
        /\ IncomingEdges(j) # {}
        /\ \A d \in IncomingEdges(j) : ~PotentiallySatisfiable(d)}

StagesOf(p) == {x \in DOMAIN stages : stages[x].pipeline_id = p}

\* the stages, jobs and edges of pipeline p, with ids replaced by the stage
\* order and by the template job a row came from
ShapeOf(p) ==
    [stages |-> {stages[x].stage_order : x \in StagesOf(p)},
     jobs |-> {[template_job_id |-> jobs[j].template_job_id,
                stage_order |-> stages[jobs[j].stage_id].stage_order,
                prompt |-> jobs[j].prompt,
                original_prompt |-> jobs[j].original_prompt,
                status |-> jobs[j].status] : j \in JobsOf(jobs, p)},
     dependencies |-> {[template_job_id |-> jobs[d.job_id].template_job_id,
                        depends_on_template_job_id |-> jobs[d.depends_on_job_id].template_job_id,
                        dependency_type |-> d.dependency_type] :
                          d \in {e \in job_dependencies : e.job_id \in JobsOf(jobs, p)}}]

\* ids of p stand one to one for the stages and template jobs of ShapeOf(p),
\* and every row of p hangs on rows of p
WellFormed(p) ==
    /\ Cardinality(StagesOf(p)) = Cardinality(ShapeOf(p).stages)
    /\ Cardinality(JobsOf(jobs, p)) = Cardinality(ShapeOf(p).jobs)
    /\ Cardinality({e \in job_dependencies : e.job_id \in JobsOf(jobs, p)})
          = Cardinality(ShapeOf(p).dependencies)
    /\ \A j \in JobsOf(jobs, p) : jobs[j].stage_id \in StagesOf(p)
    /\ \A d \in job_dependencies :
          d.job_id \in JobsOf(jobs, p) <=> d.depends_on_job_id \in JobsOf(jobs, p)

\* C19: two pipelines instantiated from the same template with the same prompt
\* and exclusions have no stage or job in common and the same shape: the same
\* stages, jobs per stage, typed edges and prompts; each pipeline and each of
\* its jobs starts pending.
C19_InstantiationRepeatable ==
    \A p, q \in PipelineIds :
        (p # q /\ pipelines[p] # "none" /\ pipelines[q] # "none") =>
            /\ WellFormed(p) /\ WellFormed(q)
            /\ ShapeOf(p) = ShapeOf(q)
            /\ pipelines[p] = "pending"
            /\ \A j \in JobsOf(jobs, p) : jobs[j].status = "pending"

\* C19 witness: both pipelines exist, each with two jobs joined by an edge.
C19_Witness ==
    /\ pipelines[1] # "none" /\ pipelines[2] # "none"
    /\ Cardinality(JobsOf(jobs, 1)) = 2 /\ Cardinality(JobsOf(jobs, 2)) = 2
    /\ \E d \in job_dependencies : d.job_id \in JobsOf(jobs, 2)

\* what the request asks for: the stages and jobs left by the exclusions
KeptStages == request.body.template.stages \ request.body.excluded_stage_ids
KeptJobs ==
    {t \in DOMAIN request.body.template.jobs :
        /\ t \notin request.body.excluded_job_ids
        /\ request.body.template.jobs[t].template_stage_id \in KeptStages}

\* C20: an instantiated pipeline has exactly the template stages not excluded,
\* exactly the template jobs not excluded whose stage is not excluded, exactly
\* the template edges between two such jobs, with their types; the rows
\* themselves are those of the template whatever the exclusions.
C20_Exclusion ==
    \A p \in PipelineIds :
        pipelines[p] # "none" =>
            /\ WellFormed(p)
            /\ ShapeOf(p).stages = KeptStages
            /\ ShapeOf(p).jobs =
                  {[template_job_id |-> t,
                    stage_order |-> request.body.template.jobs[t].template_stage_id,
                    prompt |-> <<ToString(t)>> \o request.body.original_prompt,
                    original_prompt |-> <<ToString(t)>> \o request.body.original_prompt,
                    status |-> "pending"] : t \in KeptJobs}
            /\ ShapeOf(p).dependencies =
                  {d \in request.body.template.dependencies :
                      d.template_job_id \in KeptJobs /\ d.depends_on_template_job_id \in KeptJobs}

\* C20 witness: of a template with an edge from job 2 to job 1 in an excluded
\* stage, only job 2 was materialised, without the edge.
C20_Witness ==
    /\ pipelines[1] # "none"
    /\ request.body.excluded_stage_ids # {}
    /\ request.body.excluded_job_ids = {}
    /\ \E d \in request.body.template.dependencies :
          d.template_job_id = 2 /\ d.depends_on_template_job_id = 1
    /\ {jobs[j].template_job_id : j \in JobsOf(jobs, 1)} = {2}
    /\ job_dependencies = {}

\* ---------------------------------------------------------------------------
\* the multiplier children of parent P spawned for the template job M
Children(js, P, M) ==
    {j \in DOMAIN js : js[j].parent_job_id = P /\ js[j].template_job_id = M}

\* C16: for every pair (parent_job_id, template_job_id) at most one batch of
\* multiplier children is ever spawned, over any sequence of completions,
\* retries and repeated calls of check_and_spawn_multiplied_jobs for a completed
\* parent: a step adds children of a pair only if the pair had none, and only
\* for a parent whose status is `completed`.
C16_MultiplierIdempotence ==
    [][\A P \in DOMAIN jobs' :
          \A M \in {jobs'[j].template_job_id : j \in DOMAIN jobs'} :
              Children(jobs', P, M) # Children(jobs, P, M) =>
                  /\ Children(jobs, P, M) = {}
                  /\ jobs'[P].status = "completed"]_vars

\* a parent that completed on a retry has its batch of children
C16_Witness ==
    \E P \in DOMAIN jobs :
        /\ jobs[P].status = "completed"
        /\ jobs[P].retry_count > 0
        /\ \E M \in DOMAIN template_jobs[jobs[P].pipeline_id] :
              Cardinality(Children(jobs, P, M)) = MaxItems

\* ---------------------------------------------------------------------------
\* job P reaches `completed` in this step
Completes(P) == jobs[P].status # "completed" /\ jobs'[P].status = "completed"

\* the items of the completed parent P for the declaring template job M: the
\* output stored as its final_output.txt artifact, parsed by M's parse_strategy
ItemsSource(P, M) ==
    IF jobs'[P].artifact_strategy = "none" THEN <<>>
    ELSE parse_artifact_content(
             jobs'[P].job_output,
             template_jobs[jobs[P].pipeline_id][M].job_multiplier.parse_strategy)

\* the template jobs that declare a multiplier on the template job of P
Declaring(P) ==
    {M \in DOMAIN template_jobs[jobs[P].pipeline_id] :
        template_jobs[jobs[P].pipeline_id][M].job_multiplier.source_template_job_id
            = jobs[P].template_job_id}

\* the stage rows of the pipeline of P made from the stage of template job M
DeclaringStage(P, M) ==
    {x \in DOMAIN stages :
        /\ stages[x].pipeline_id = jobs[P].pipeline_id
        /\ stages[x].stage_order
              = template_jobs[jobs[P].pipeline_id][M].template_stage_id}

\* prompt_template after replacing {{item}}, {{original_prompt}} and {{index}}
\* in this order, token by token
RECURSIVE ExpectedPrompt(_, _, _, _)
ExpectedPrompt(prompt_template, item, original_prompt, i) ==
    IF prompt_template = <<>> THEN <<>>
    ELSE LET tok == Head(prompt_template)
             text == IF tok = ItemToken
                     THEN ReplaceToken(
                              ReplaceToken(item, OriginalPromptToken, original_prompt),
                              IndexToken, <<ToString(i)>>)
                     ELSE IF tok = OriginalPromptToken
                     THEN ReplaceToken(original_prompt, IndexToken, <<ToString(i)>>)
                     ELSE IF tok = IndexToken THEN <<ToString(i)>>
                     ELSE <<tok>>
         IN  text \o ExpectedPrompt(Tail(prompt_template), item, original_prompt, i)

\* the batch of M for the parent P is made of N(M) children, one per item
FanOut(P, N(_)) ==
    /\ \A M \in Declaring(P) :
          LET batch == Children(jobs', P, M)
              items == ItemsSource(P, M)
              tj == template_jobs[jobs[P].pipeline_id][M]
          IN  /\ Cardinality(batch) = N(M)
              /\ \A i \in 1..N(M) : \E x \in batch :
                    jobs'[x].prompt = ExpectedPrompt(tj.job_multiplier.prompt_template,
                                                     items[i], OriginalPrompt, i - 1)
              /\ \A x \in batch :
                    /\ jobs'[x].status = "pending"
                    /\ jobs'[x].pipeline_id = jobs[P].pipeline_id
                    /\ jobs'[x].stage_id \in DeclaringStage(P, M)
                    /\ {d \in job_dependencies' : d.job_id = x}
                          = {[job_id |-> x, depends_on_job_id |-> P,
                              dependency_type |-> "success"]}
    /\ DOMAIN jobs' \ DOMAIN jobs = UNION {Children(jobs', P, M) : M \in Declaring(P)}
    /\ \A d \in job_dependencies' \ job_dependencies : d.job_id \notin DOMAIN jobs
    /\ job_dependencies \subseteq job_dependencies'
    /\ \A j \in DOMAIN jobs \ {P} : jobs'[j] = jobs[j]
    /\ UNCHANGED <<pipelines, stages>>

\* C17 as stated: when a parent completes and its items source parses to N
\* items, exactly N jobs are created for each declaring template job, each
\* pending, in the parent's pipeline and the declaring job's stage, with one
\* `success` edge on the parent and the substituted prompt; nothing else is
\* created or changed.
C17_FanOut ==
    [][\A P \in DOMAIN jobs :
          Completes(P) => LET N(M) == Len(ItemsSource(P, M)) IN FanOut(P, N)]_vars

\* C17 amended: the N children are created when the stage of the declaring
\* template job exists in the parent's pipeline; when that stage was excluded
\* at instantiation no job is created.
C17_FanOutAmended ==
    [][\A P \in DOMAIN jobs :
          Completes(P) =>
              LET N(M) == IF DeclaringStage(P, M) = {} THEN 0 ELSE Len(ItemsSource(P, M))
              IN  FanOut(P, N)]_vars

\* a completed planner with MaxItems children, the first made from item "t1"
C17_Witness ==
    \E P \in DOMAIN jobs :
        /\ jobs[P].status = "completed"
        /\ \E M \in DOMAIN template_jobs[jobs[P].pipeline_id] :
              /\ Cardinality(Children(jobs, P, M)) = MaxItems
              /\ \E x \in Children(jobs, P, M) :
                    jobs[x].prompt = <<"do", "t1", "P", "0">>

\* ---------------------------------------------------------------------------
\* run_job passes its first await for job j in this step
Starts(j) ==
    /\ j \in DOMAIN running_jobs /\ j \in DOMAIN running_jobs'
    /\ running_jobs[j].pc = "created"
    /\ running_jobs'[j].pc = "subprocess"

\* what the attempt before the one that starts printed
PreviousOutput(j) == Output(jobs[j].command, jobs[j].retry_count)

\* instruction, previous output and original prompt, in this order
AugmentedPrompt(j) ==
    (IF jobs[j].retry_strategy.context_instruction = Null
     THEN DefaultContextInstruction
     ELSE jobs[j].retry_strategy.context_instruction)
    \o <<"=== PREVIOUS ATTEMPT OUTPUT ===">> \o PreviousOutput(j)
    \o <<"=== ORIGINAL TASK ===">> \o jobs[j].original_prompt

\* C18: when a job with include_context = true is run again (retry_count > 0)
\* after a failed attempt that produced non-empty output, run_job stores, before
\* it starts the subprocess, the prompt made of context_instruction, the
\* previous attempt's output and original_prompt; original_prompt is never
\* modified.
C18_RetryWithContext ==
    [][\A j \in DOMAIN jobs :
          /\ jobs'[j].original_prompt = jobs[j].original_prompt
          /\ (/\ Starts(j)
              /\ jobs[j].retry_count > 0
              /\ jobs[j].retry_strategy.include_context
              /\ PreviousOutput(j) # NoText)
                => jobs'[j].prompt = AugmentedPrompt(j)]_vars

\* ---------------------------------------------------------------------------
\* the reply read in this step answers a request that names an unknown
\* template or an unknown pipeline
NamesUnknown ==
    /\ response'.n # response.n
    /\ \/ /\ response'.op \in {"get_template", "start"}
          /\ response'.template_id \notin KnownTemplates
       \/ /\ response'.op \in {"get_pipeline", "stop"}
          /\ pipelines[response'.pipeline_id] = "none"

\* C21: every operation that names an unknown template or pipeline (get
\* template details, start, fetch pipeline, stop) reports NotFound (404) and
\* leaves the store unchanged.
C21_UnknownNameNotFound ==
    [][NamesUnknown =>
          /\ response'.code = 404
          /\ UNCHANGED <<pipelines, stages, jobs, job_dependencies>>]_vars

\* ---------------------------------------------------------------------------
\* pipeline p is stopped in this step
Stopped(p) == pipelines[p] # "cancelled" /\ pipelines'[p] = "cancelled"

\* the executor of job j returns in this step
Returns(j) == j \in DOMAIN running_jobs /\ j \notin DOMAIN running_jobs'

\* what an attempt with this exit code makes of a job
NormalStatus(returncode, retry_count, max_retries) ==
    IF returncode = 0 THEN "completed"
    ELSE IF retry_count < max_retries THEN "pending" ELSE "failed"

\* C22: stop_pipeline changes only the pipeline row: no job row, no edge and no
\* other pipeline changes and no executor is removed; an executor that runs a
\* job of a cancelled pipeline still writes the normal outcome of its attempt.
C22_StopChangesPipelineOnly ==
    [][/\ \A p \in PipelineIds :
             Stopped(p) =>
                 /\ UNCHANGED <<jobs, job_dependencies, stages, running_jobs>>
                 /\ \A q \in PipelineIds \ {p} : pipelines'[q] = pipelines[q]
       /\ \A j \in DOMAIN jobs :
             (Returns(j) /\ pipelines[jobs[j].pipeline_id] = "cancelled") =>
                 jobs'[j].status = NormalStatus(running_jobs[j].returncode,
                                                running_jobs[j].retry_count,
                                                running_jobs[j].max_retries)]_vars

\* the executor of a job is about to return in a cancelled pipeline, one of
\* whose jobs has completed
C22_Witness ==
    \E j \in DOMAIN jobs :
        /\ pipelines[jobs[j].pipeline_id] = "cancelled"
        /\ jobs[j].status = "completed"
        /\ \E k \in DOMAIN jobs :
              /\ jobs[k].pipeline_id = jobs[j].pipeline_id
              /\ k \in DOMAIN running_jobs
              /\ running_jobs[k].pc = "exited"

\* ---------------------------------------------------------------------------
\* C23: every job is pending with started_at null, or running with started_at
\* set, or completed, failed or skipped with completed_at set; also after
\* retries and after the executor's internal-error path.
C23_StatusMatchesTimestamps ==
    \A j \in DOMAIN jobs :
        /\ jobs[j].status = "pending" => jobs[j].started_at = "null"
        /\ jobs[j].status = "running" => jobs[j].started_at = "set"
        /\ jobs[j].status \in TerminalJobStatus => jobs[j].completed_at = "set"

\* C24: a job reaches `failed` only from `running`, never from `pending`, also
\* when the executor handles an unexpected internal error.
C24_FailedOnlyFromRunning ==
    [][\A j \in DOMAIN jobs :
          (jobs[j].status # "failed" /\ jobs'[j].status = "failed") =>
              jobs[j].status = "running"]_vars

\* ---------------------------------------------------------------------------
\* the jobs from which job j is reached along success edges only
RECURSIVE SuccessAncestors(_, _)
SuccessAncestors(j, A) ==
    LET up == A \cup {d.depends_on_job_id :
                        d \in {e \in job_dependencies :
                                  /\ e.dependency_type = "success"
                                  /\ e.job_id \in A \cup {j}}}
    IN  IF up = A THEN A ELSE SuccessAncestors(j, up)

\* C25: every job that is skipped with reason dependency_failed has a failed
\* ancestor that reaches it along success edges only.
C25_SkippedHasFailedAncestor ==
    \A j \in DOMAIN jobs :
        (jobs[j].status = "skipped" /\ jobs[j].termination_reason = ReasonDependencyFailed)
            => \E a \in SuccessAncestors(j, {}) : jobs[a].status = "failed"

\* job 3 is skipped for the failure of job 1, which it reaches only through
\* job 2
C25_Witness ==
    /\ DOMAIN jobs = 1..3
    /\ jobs[1].status = "failed"
    /\ jobs[3].status = "skipped" /\ jobs[3].termination_reason = ReasonDependencyFailed
    /\ ~ \E d \in job_dependencies : d.job_id = 3 /\ d.depends_on_job_id = 1
    /\ \E d \in job_dependencies : d.job_id = 3 /\ d.depends_on_job_id = 2

\* ---------------------------------------------------------------------------
\* the skipped jobs of a jobs table
SkippedSet(js) == {j \in DOMAIN js : js[j].status = "skipped"}

\* C26: failure propagation is idempotent: run a second time on the job that
\* has just failed, with no step in between, it changes no job row and yields
\* the same set of skipped jobs.
C26_PropagationIdempotent ==
    [][\A F \in NewlyFailed :
          /\ propagate_job_failure(jobs', F) = jobs'
          /\ SkippedSet(propagate_job_failure(jobs', F)) = SkippedSet(jobs')]_vars

\* the failure of job 1 has skipped its two direct success dependents
C26_Witness ==
    /\ DOMAIN jobs = 1..3
    /\ jobs[1].status = "failed"
    /\ \A j \in {2, 3} :
          /\ jobs[j].status = "skipped"
          /\ jobs[j].termination_reason = ReasonDependencyFailed
          /\ [job_id |-> j, depends_on_job_id |-> 1, dependency_type |-> "success"]
                \in job_dependencies

\* ---------------------------------------------------------------------------
\* the executor of job P returns in this step and leaves P pending for a retry
Requeued(P) == Returns(P) /\ jobs'[P].status = "pending"

\* the artifact the collector persists for job P in this step
CollectedArtifact(P) ==
    IF jobs[P].artifact_strategy = "none" \/ jobs'[P].job_output = NoText THEN {}
    ELSE {[job_id |-> P, name |-> "final_output.txt", content |-> jobs'[P].job_output]}

\* the pending jobs with a success edge on P
PendingSuccessDependents(P) ==
    {d.job_id : d \in {e \in job_dependencies :
                          /\ e.depends_on_job_id = P
                          /\ e.dependency_type = "success"
                          /\ jobs[e.job_id].status = "pending"}}

\* artifacts and multiplier children belong to completed jobs
OnlyCompletedHaveFollowUps ==
    /\ \A a \in artifacts : jobs[a.job_id].status = "completed"
    /\ \A j \in DOMAIN jobs :
          jobs[j].parent_job_id # 0 => jobs[jobs[j].parent_job_id].status = "completed"

\* C27: order of the executor's follow-up steps.  When an attempt makes the job
\* completed the collector persists its artifact and the multiplier, run after
\* it, makes its children from that artifact; when the attempt makes the job
\* failed the propagator skips its pending success dependents and no artifact
\* or job is created; when the attempt is re-queued none of the three runs: no
\* artifact, no job, no edge is created and no other job row changes.  Hence
\* artifacts and multiplier children exist only for completed jobs.
C27_FollowUpOrder ==
    /\ []OnlyCompletedHaveFollowUps
    /\ [][\A P \in DOMAIN jobs :
             /\ Completes(P) =>
                   /\ artifacts' = artifacts \cup CollectedArtifact(P)
                   /\ \A M \in Declaring(P) :
                         (DeclaringStage(P, M) # {} /\ Children(jobs, P, M) = {}) =>
                             Cardinality(Children(jobs', P, M)) =
                                 Len(parse_artifact_content(
                                         ArtifactContent(artifacts', P),
                                         template_jobs[jobs[P].pipeline_id][M]
                                             .job_multiplier.parse_strategy))
             /\ (Returns(P) /\ jobs'[P].status = "failed") =>
                   /\ artifacts' = artifacts
                   /\ DOMAIN jobs' = DOMAIN jobs
                   /\ job_dependencies' = job_dependencies
                   /\ \A j \in PendingSuccessDependents(P) : jobs'[j].status = "skipped"
             /\ Requeued(P) =>
                   /\ artifacts' = artifacts
                   /\ DOMAIN jobs' = DOMAIN jobs
                   /\ job_dependencies' = job_dependencies
                   /\ \A j \in DOMAIN jobs \ {P} : jobs'[j] = jobs[j]]_vars

\* the planner completed on its second attempt: it has its artifact and
\* MaxItems children made from it, and no artifact was left by the first attempt
C27_Witness ==
    \E P \in DOMAIN jobs :
        /\ jobs[P].status = "completed"
        /\ jobs[P].retry_count = 1
        /\ artifacts = {[job_id |-> P, name |-> "final_output.txt",
                         content |-> jobs[P].job_output]}
        /\ Cardinality({j \in DOMAIN jobs : jobs[j].parent_job_id = P}) = MaxItems

\* ---------------------------------------------------------------------------
\* ParseFailed: the items source is not empty and the parser of the strategy
\* cannot read it; only the JSON parser can fail
ParseFailed(content, parse_strategy) ==
    /\ content # NoText
    /\ parse_strategy = "json_array"
    /\ ~ JsonValid(JsonTokens(Strip(content)))

\* the edges of job x
EdgesOf(deps, x) == {d \in deps : d.job_id = x}

\* C28 as stated: when the items source of the completed parent cannot be
\* parsed it is treated as no items: no child job and no dependency edge is
\* created, for every parse_strategy including json_array.
C28_ParseFailedNoChildren ==
    [][\A P \in DOMAIN jobs :
          Completes(P) =>
              \A M \in Declaring(P) :
                  ParseFailed(jobs'[P].job_output,
                              template_jobs[jobs[P].pipeline_id][M]
                                  .job_multiplier.parse_strategy)
                      => /\ Children(jobs', P, M) = {}
                         /\ job_dependencies' = job_dependencies]_vars

\* C28 amended: an items source that json_array cannot parse is wrapped as a
\* single item: exactly one child is created, its prompt made from the whole
\* content as the item, with one success edge on the parent.
C28_ParseFailedWrapsContent ==
    [][\A P \in DOMAIN jobs :
          Completes(P) =>
              \A M \in Declaring(P) :
                  LET mult == template_jobs[jobs[P].pipeline_id][M].job_multiplier
                      content == jobs'[P].job_output
                  IN  ParseFailed(content, mult.parse_strategy) =>
                          \E x \in DOMAIN jobs' \ DOMAIN jobs :
                              /\ Children(jobs', P, M) = {x}
                              /\ jobs'[x].prompt =
                                    ExpectedPrompt(mult.prompt_template, content,
                                                   OriginalPrompt, 0)
                              /\ EdgesOf(job_dependencies', x)
                                    = {[job_id |-> x, depends_on_job_id |-> P,
                                        dependency_type |-> "success"]}
                              /\ job_dependencies' =
                                    job_dependencies \cup EdgesOf(job_dependencies', x)]_vars

\* the planner printed an array that is not closed and the json_array
\* multiplier made one child from the whole text
C28_Witness ==
    \E P \in DOMAIN jobs :
        /\ jobs[P].status = "completed"
        /\ jobs[P].job_output = <<LBracket, "t1">>
        /\ \E x \in DOMAIN jobs :
              /\ jobs[x].parent_job_id = P
              /\ template_jobs[jobs[P].pipeline_id][jobs[x].template_job_id]
                    .job_multiplier.parse_strategy = "json_array"
              /\ jobs[x].prompt = <<"do", LBracket, "t1">>
              /\ {j \in DOMAIN jobs : jobs[j].parent_job_id = P} = {x}

\* ---------------------------------------------------------------------------
\* the executor of job j returns in this step with an outcome that is final
Terminates(j) == Returns(j) /\ jobs'[j].status \in {"completed", "failed"}

\* job_output is written only by an executor that terminates its job, and an
\* attempt that is re-queued leaves it as it was
WrittenOnlyOnTerminal(j) ==
    /\ jobs'[j].job_output # jobs[j].job_output => Terminates(j)
    /\ Requeued(j) => jobs'[j].job_output = jobs[j].job_output

\* what the attempt that ends in this step printed
FinalAttemptOutput(j) == Output(jobs[j].command, running_jobs[j].retry_count + 1)

\* C29 as stated: job_output is written only on a terminal outcome: an attempt
\* that is re-queued for retry leaves job_output unchanged, and after the
\* terminal outcome job_output holds the output of the final attempt only (the
\* empty text if that attempt printed nothing).
C29_JobOutputOnTerminal ==
    [][\A j \in DOMAIN jobs :
          /\ WrittenOnlyOnTerminal(j)
          /\ Terminates(j) => jobs'[j].job_output = FinalAttemptOutput(j)]_vars

\* C29 amended: the terminal outcome that stores the output is the one reached
\* through the exit code of the attempt; a job that is made failed by an
\* internal error of the executor keeps the job_output it had.
C29_JobOutputOnExit ==
    [][\A j \in DOMAIN jobs :
          /\ WrittenOnlyOnTerminal(j)
          /\ Terminates(j) =>
                jobs'[j].job_output = IF jobs'[j].termination_reason = ReasonInternalError
                                      THEN jobs[j].job_output
                                      ELSE FinalAttemptOutput(j)]_vars

\* a job failed on its second attempt and holds the output of that attempt,
\* while another was failed by an internal error and holds none
C29_Witness ==
    \E j, k \in DOMAIN jobs :
        /\ jobs[j].status = "failed"
        /\ jobs[j].retry_count = 1
        /\ jobs[j].job_output = <<"out", "2">>
        /\ jobs[k].status = "failed"
        /\ jobs[k].termination_reason = ReasonInternalError
        /\ jobs[k].job_output = Null

\* ---------------------------------------------------------------------------
\* the last POST of a start failed inside the instantiation of pipeline p
InstantiationFailed(p) ==
    response.op = "start" /\ response.code = 500 /\ response.pipeline_id = p

\* rows of pipeline p are in the store
HasRows(p) ==
    \/ pipelines[p] # "none"
    \/ \E x \in DOMAIN stages : stages[x].pipeline_id = p
    \/ \E j \in DOMAIN jobs : jobs[j].pipeline_id = p

\* rows of pipeline p are committed: every reader of the store sees them
Committed(p) == HasRows(p) /\ p \notin uncommitted

\* C30: instantiation is all-or-nothing: when instantiate_template fails after
\* it has started inserting rows, no pipeline, stage, job or dependency row of
\* that instantiation ever becomes visible, also when another writer (the
\* scheduler tick, an executor) commits on the shared store afterwards.
C30_InstantiationAllOrNothing ==
    \A p \in PipelineIds : InstantiationFailed(p) => ~ Committed(p)

\* ---------------------------------------------------------------------------
\* the jobs that the jobs of S depend on directly
DependsOn(deps, S) == {d.depends_on_job_id : d \in {e \in deps : e.job_id \in S}}

\* the jobs reached from S along dependency edges, S included
RECURSIVE DependencyClosure(_, _)
DependencyClosure(deps, S) ==
    IF DependsOn(deps, S) \subseteq S THEN S
    ELSE DependencyClosure(deps, S \cup DependsOn(deps, S))

\* C31: in every reachable state the job dependency graph is acyclic: no job
\* reaches itself along dependency edges, after instantiation with any
\* exclusions and after every multiplier fan-out.
C31_DependencyGraphAcyclic ==
    \A j \in DOMAIN jobs :
        j \notin DependencyClosure(job_dependencies, DependsOn(job_dependencies, {j}))

\* the declaring job depends on the planner by an edge of the template, and the
\* completed planner has MaxItems children, each with its edge on the planner
C31_Witness ==
    \E P, D \in DOMAIN jobs :
        /\ jobs[P].status = "completed"
        /\ jobs[D].parent_job_id = 0
        /\ D \in {d.job_id : d \in {e \in job_dependencies : e.depends_on_job_id = P}}
        /\ Cardinality({x \in DOMAIN jobs :
                           /\ jobs[x].parent_job_id = P
                           /\ P \in DependsOn(job_dependencies, {x})}) = MaxItems

\* ---------------------------------------------------------------------------
\* C32: in every reachable state both endpoints of every job dependency edge
\* are jobs, and jobs of the same pipeline, for the edges made by instantiation
\* and for the edges made by the multiplier.
C32_EdgesInsideOnePipeline ==
    \A d \in job_dependencies :
        /\ d.job_id \in DOMAIN jobs
        /\ d.depends_on_job_id \in DOMAIN jobs
        /\ jobs[d.job_id].pipeline_id = jobs[d.depends_on_job_id].pipeline_id

\* two pipelines of the same template, each with an edge of the template and
\* with the edge of a multiplier child
C32_Witness ==
    \A p \in {1, 2} :
        /\ \E d \in job_dependencies :
              /\ jobs[d.job_id].pipeline_id = p
              /\ jobs[d.job_id].parent_job_id = 0
        /\ \E d \in job_dependencies :
              /\ jobs[d.job_id].pipeline_id = p
              /\ jobs[d.job_id].parent_job_id = d.depends_on_job_id

\* ---------------------------------------------------------------------------
\* a running pipeline without jobs: its completion check raises in every tick
RaisingPipelines == {p \in PipelineIds : pipelines[p] = "running" /\ JobsOf(jobs, p) = {}}

\* C33: the scheduler loop is crash-resistant: an exception raised inside a
\* tick never ends orchestration_loop: in every reachable state the loop is
\* sleeping before its next tick, whose only condition that is.
C33_LoopSurvivesExceptions == loop = "sleeping"

\* a tick raised on pipeline 1, which has no jobs, and later ticks dispatched
\* the job of pipeline 2 and finalised that pipeline
C33_Witness ==
    /\ 1 \in RaisingPipelines
    /\ pipelines[2] \in {"completed", "failed"}
    /\ loop = "sleeping"

\* ---------------------------------------------------------------------------
\* the executor of job j returns in this step through its `except` branch: the
\* step is not the one the exit code of the attempt leads to
EndsByInternalError(j) == Returns(j) /\ ~ run_job_finish(j)

\* a job is `running` only while an executor task holds it: no error has left
\* a task before the job was given an outcome
NoJobLeftRunning ==
    \A j \in DOMAIN jobs : jobs[j].status = "running" => j \in DOMAIN running_jobs

\* C34: an internal error inside run_job, at whatever step it is raised (before
\* the job is running, while the subprocess is spawned or read, when the
\* outcome is written), leaves the job failed with the text of the error as
\* termination_reason and propagates the failure to the pending jobs that
\* depend on its success; the task ends and no job is left running without a
\* task.
C34_InternalErrorFailsJob ==
    /\ [] NoJobLeftRunning
    /\ [][\A j \in DOMAIN jobs :
             EndsByInternalError(j) =>
                 /\ jobs'[j].status = "failed"
                 /\ jobs'[j].termination_reason = ReasonInternalError
                 /\ \A k \in DOMAIN jobs \ {j} :
                       jobs'[k] = IF k \in SuccessReachFrom(j, {})
                                  THEN [jobs[k] EXCEPT
                                           !.status = "skipped",
                                           !.completed_at = "set",
                                           !.termination_reason = ReasonDependencyFailed]
                                  ELSE jobs[k]
       ]_vars

\* job 1 was failed by an internal error after it had started, and job 2, which
\* depended on its success, was skipped by the propagation
C34_Witness ==
    /\ DOMAIN jobs = 1..2
    /\ jobs[1].status = "failed"
    /\ jobs[1].termination_reason = ReasonInternalError
    /\ jobs[1].started_at = "set"
    /\ jobs[2].status = "skipped"
    /\ jobs[2].termination_reason = ReasonDependencyFailed
    /\ running_jobs = EmptyMap

\* ---------------------------------------------------------------------------
\* Rows are created in the order of their ids (pipelines are started in the
\* order of PipelineIds, LastId numbers the jobs), so the key
\* (pipeline.created_at, stage.stage_order, job.created_at) of job a is smaller
\* than that of job b when:
SelectionKeyLess(a, b) ==
    \/ jobs[a].pipeline_id < jobs[b].pipeline_id
    \/ /\ jobs[a].pipeline_id = jobs[b].pipeline_id
       /\ \/ stages[jobs[a].stage_id].stage_order < stages[jobs[b].stage_id].stage_order
          \/ /\ stages[jobs[a].stage_id].stage_order = stages[jobs[b].stage_id].stage_order
             /\ a < b

\* the scheduler creates the task of job j in this step
Dispatched(j) == j \notin DOMAIN running_jobs /\ j \in DOMAIN running_jobs'

\* C35: the job a tick dispatches is the ready job with the smallest
\* (pipeline.created_at, stage.stage_order, job.created_at): no other ready job
\* has a smaller key, so the choice is a function of the store and a ready job
\* of an earlier stage goes before one of a later stage.
C35_DeterministicSelection ==
    [][\A j \in DOMAIN jobs :
          Dispatched(j) => \A k \in ReadyJobs(jobs) : ~ SelectionKeyLess(k, j)]_vars

\* ---------------------------------------------------------------------------
\* the executor of job j waits for its subprocess
AwaitsSubprocess(j) == j \in DOMAIN running_jobs /\ running_jobs[j].pc = "subprocess"

\* C36: a subprocess that is still running after the job's timeout is killed
\* and the attempt counted as failed, so an executor that waits for its
\* subprocess always comes to an end and gives the worker back, whether the
\* subprocess exits by itself or not.
C36_HungSubprocessReleased ==
    \A j \in JobIds : AwaitsSubprocess(j) ~> j \notin DOMAIN running_jobs

\* ---------------------------------------------------------------------------
\* What the claim has a config yield: stdout_final, an unknown type and a
\* missing type yield the one artifact final_output.txt for a non-empty output
\* and nothing otherwise; a composite yields what its nested configs yield, one
\* after the other.  (git_diff, about which the claim says nothing, yields one
\* file artifact per changed file.)
RECURSIVE ClaimedArtifacts(_, _, _, _, _)
ClaimedArtifacts(config, i, job_id, final_output, files) ==
    IF config.type = "composite"
    THEN IF i > Len(config.strategies) THEN <<>>
         ELSE ClaimedArtifacts(config.strategies[i], 1, job_id, final_output, files)
              \o ClaimedArtifacts(config, i + 1, job_id, final_output, files)
    ELSE IF config.type = "git_diff"
    THEN GitDiffStrategy(job_id, files)
    ELSE IF final_output \in {Null, NoText} THEN <<>>
    ELSE <<[job_id |-> job_id, type |-> "model_output", name |-> "final_output.txt",
            file_path |-> Null, content |-> final_output]>>

\* C37: the collector of a config adds to the artifacts table exactly the rows
\* the claim describes, in that order and as many, and leaves every job row
\* (its status with it) as it was.
C37_ArtifactStrategies ==
    [][/\ jobs' = jobs
       /\ \E j \in DOMAIN jobs :
             LET list == ClaimedArtifacts(request.strategy_config, 1, j,
                                          request.final_output, request.files)
             IN  /\ Cardinality(artifacts') = Cardinality(artifacts) + Len(list)
                 /\ \A i \in 1..Len(list) :
                       \E a \in artifacts' :
                           /\ a.artifact_id = Cardinality(artifacts) + i
                           /\ a.job_id = j
                           /\ a.type = list[i].type
                           /\ a.name = list[i].name
                           /\ a.content = list[i].content
      ]_vars

\* a composite of a config with an unknown type and of a nested composite of
\* stdout_final has yielded two model_output artifacts with the same content
C37_Witness ==
    /\ request.strategy_config =
          StrategyConfig("composite",
              <<StrategyConfig("no_such_type", <<>>),
                StrategyConfig("composite", <<StrategyConfig("stdout_final", <<>>)>>)>>)
    /\ Cardinality(artifacts) = 2
    /\ \A a \in artifacts :
          a.type = "model_output" /\ a.name = "final_output.txt" /\ a.content = <<"out">>
    /\ jobs[1].status = "running"

\* ---------------------------------------------------------------------------
\* the executor of job j gives the job its outcome of the attempt in this step:
\* completed, re-queued as pending, or failed (by the exit code or by an error)
WritesOutcome(j) ==
    /\ j \in DOMAIN running_jobs
    /\ jobs'[j].status # jobs[j].status
    /\ jobs'[j].status \in {"completed", "pending", "failed"}

\* the attempt of job j whose subprocess has exited comes to its end in this step
AttemptEnds(j) ==
    /\ j \in DOMAIN running_jobs
    /\ running_jobs[j].pc = "exited"
    /\ running_jobs' # running_jobs

\* C38: whenever run_job ends, by success, by re-queue for retry, by permanent
\* failure or by an internal error, the entry of the job has left running_jobs;
\* and when an attempt whose subprocess has exited ends, the worker is free, so
\* that the scheduler may dispatch again at its next tick.
C38_WorkerSlotReleased ==
    [][\A j \in DOMAIN jobs :
          /\ WritesOutcome(j) => j \notin DOMAIN running_jobs'
          /\ AttemptEnds(j) => MayDispatch(running_jobs')]_vars

\* job 1 was re-queued once and then completed, job 2 was failed by an internal
\* error, and the worker is free
C38_Witness ==
    /\ DOMAIN jobs = 1..2
    /\ jobs[1].status = "completed" /\ jobs[1].retry_count = 1
    /\ jobs[2].status = "failed" /\ jobs[2].termination_reason = ReasonInternalError
    /\ MayDispatch(running_jobs)

\* ---------------------------------------------------------------------------
\* the multiplier, run again for job P on the store as it is, adds nothing:
\* every child P has to get is there
NothingLeftToSpawn(P) ==
    LET db == check_and_spawn_multiplied_jobs(
                  [jobs |-> jobs, job_dependencies |-> job_dependencies,
                   artifacts |-> artifacts], P)
    IN  db.jobs = jobs /\ db.job_dependencies = job_dependencies

\* C39: the completion of a parent and its fan-out are one step: in every state
\* a scheduler tick can see, a completed job has all the children the
\* multiplier makes for it, so no completion check finds a completed parent
\* whose children are still to be spawned.
C39_CompletionAndFanOutTogether ==
    \A P \in DOMAIN jobs : jobs[P].status = "completed" => NothingLeftToSpawn(P)

\* the pipeline was finalised as completed after the parent and its MaxItems
\* children had completed
C39_Witness ==
    \E P \in DOMAIN jobs :
        /\ pipelines[jobs[P].pipeline_id] = "completed"
        /\ jobs[P].status = "completed"
        /\ Cardinality({j \in DOMAIN jobs : jobs[j].parent_job_id = P
                                            /\ jobs[j].status = "completed"}) = MaxItems

\* ---------------------------------------------------------------------------
\* pipeline p is running when the tick comes to its completion checks, and has
\* jobs, all of them terminal
DueForFinalisation(p) ==
    /\ PromotePending(pipelines)[p] = "running"
    /\ JobsOf(jobs, p) # {}
    /\ AllJobsTerminal(p)

\* C40: every tick applies the completion check to every running pipeline: a
\* running pipeline whose jobs are all terminal is finalised by the tick,
\* whatever the other running pipelines are (one without jobs, one whose check
\* raises).
C40_FinalisationIndependent ==
    [][orchestration_loop =>
          \A p \in PipelineIds :
              DueForFinalisation(p) => pipelines'[p] \in {"completed", "failed"}]_vars

====
